---- MODULE Spec2Model ----
(***************************************************************************)
(* MEDAI-Lite: the multi-agent health risk aggregation engine.             *)
(*                                                                         *)
(* The three evaluators (CardioAgent, MetabolicAgent, NeuroAgent), the     *)
(* timing wrapper of BaseAgent and the AggregatorAgent are modelled from   *)
(* backend/models/agents.  Python floats are IEEE-754 binary64 values; the *)
(* scores are computed here with the same correctly rounded operations,    *)
(* because the risk levels are cut on the unrounded float while the        *)
(* reported score is round(x, 2) of it.                                    *)
(***************************************************************************)
EXTENDS Integers, Sequences, FiniteSets, TLC

(***************************************************************************)
(* Natural numbers of arbitrary size: little-endian sequences of limbs in  *)
(* base 2^15, without leading zero limbs (zero is the empty sequence).     *)
(* They carry the 53-bit significands of the binary64 arithmetic.          *)
(***************************************************************************)
LimbBase == 2 ^ 15

RECURSIVE IntBitLen(_)
IntBitLen(n) == IF n = 0 THEN 0 ELSE 1 + IntBitLen(n \div 2)

LimbBits == IntBitLen(LimbBase) - 1


RECURSIVE BNorm(_)
BNorm(a) ==
    IF a = <<>> THEN <<>>
    ELSE IF a[Len(a)] = 0 THEN BNorm(SubSeq(a, 1, Len(a) - 1))
    ELSE a

RECURSIVE BFromInt(_)
BFromInt(n) ==
    IF n = 0 THEN <<>> ELSE <<n % LimbBase>> \o BFromInt(n \div LimbBase)

RECURSIVE BToInt(_)
BToInt(a) ==
    IF a = <<>> THEN 0 ELSE a[1] + LimbBase * BToInt(Tail(a))

Limb(a, i) == IF i <= Len(a) THEN a[i] ELSE 0

RECURSIVE BAddC(_, _, _, _)
BAddC(a, b, i, carry) ==
    IF i > Len(a) /\ i > Len(b)
    THEN (IF carry = 0 THEN <<>> ELSE <<carry>>)
    ELSE LET add_sum == Limb(a, i) + Limb(b, i) + carry
         IN  <<add_sum % LimbBase>> \o BAddC(a, b, i + 1, add_sum \div LimbBase)

BAdd(a, b) == BAddC(a, b, 1, 0)

\* a - b for a >= b
RECURSIVE BSubC(_, _, _, _)
BSubC(a, b, i, borrow) ==
    IF i > Len(a) THEN <<>>
    ELSE LET sub_diff == Limb(a, i) - Limb(b, i) - borrow
         IN  IF sub_diff < 0
             THEN <<sub_diff + LimbBase>> \o BSubC(a, b, i + 1, 1)
             ELSE <<sub_diff>> \o BSubC(a, b, i + 1, 0)

BSub(a, b) == BNorm(BSubC(a, b, 1, 0))

\* -1, 0, 1 as a < b, a = b, a > b
RECURSIVE BCmpAt(_, _, _)
BCmpAt(a, b, i) ==
    IF i = 0 THEN 0
    ELSE IF a[i] < b[i] THEN -1
    ELSE IF a[i] > b[i] THEN 1
    ELSE BCmpAt(a, b, i - 1)

BCmp(a, b) ==
    IF Len(a) < Len(b) THEN -1
    ELSE IF Len(a) > Len(b) THEN 1
    ELSE BCmpAt(a, b, Len(a))

\* a * s for 0 <= s < LimbBase
RECURSIVE BMulSmallC(_, _, _, _)
BMulSmallC(a, s, i, carry) ==
    IF i > Len(a)
    THEN (IF carry = 0 THEN <<>> ELSE <<carry>>)
    ELSE LET ms_prod == a[i] * s + carry
         IN  <<ms_prod % LimbBase>> \o BMulSmallC(a, s, i + 1, ms_prod \div LimbBase)

BMulSmall(a, s) == IF s = 0 THEN <<>> ELSE BMulSmallC(a, s, 1, 0)

Zeros(n) == [i \in 1..n |-> 0]

BShlLimbs(a, n) == IF a = <<>> THEN <<>> ELSE Zeros(n) \o a

RECURSIVE BMulAt(_, _, _)
BMulAt(a, b, i) ==
    IF i > Len(b) THEN <<>>
    ELSE BAdd(BShlLimbs(BMulSmall(a, b[i]), i - 1), BMulAt(a, b, i + 1))

BMul(a, b) == BMulAt(a, b, 1)

\* floor(a / s) for 0 < s < LimbBase, from the top limb down
RECURSIVE BDivSmallAt(_, _, _, _)
BDivSmallAt(a, s, i, rem) ==
    IF i = 0 THEN <<>>
    ELSE LET ds_cur == rem * LimbBase + a[i]
         IN  IF ds_cur < s
             THEN BDivSmallAt(a, s, i - 1, ds_cur) \o <<0>>
             ELSE BDivSmallAt(a, s, i - 1, ds_cur % s) \o <<ds_cur \div s>>

BDivSmall(a, s) == BNorm(BDivSmallAt(a, s, Len(a), 0))

RECURSIVE BModSmallAt(_, _, _, _)
BModSmallAt(a, s, i, rem) ==
    IF i = 0 THEN rem
    ELSE LET md_cur == rem * LimbBase + a[i]
         IN  IF md_cur < s
             THEN BModSmallAt(a, s, i - 1, md_cur)
             ELSE BModSmallAt(a, s, i - 1, md_cur % s)

BModSmall(a, s) == BModSmallAt(a, s, Len(a), 0)

\* a * 2^n
BShl(a, n) == BShlLimbs(BMulSmall(a, 2 ^ (n % LimbBits)), n \div LimbBits)

\* floor(a / 2^n)
BShr(a, n) ==
    LET shr_limbs == n \div LimbBits
    IN  IF shr_limbs >= Len(a) THEN <<>>
        ELSE BDivSmall(SubSeq(a, shr_limbs + 1, Len(a)), 2 ^ (n % LimbBits))

BitLen(a) ==
    IF a = <<>> THEN 0 ELSE LimbBits * (Len(a) - 1) + IntBitLen(a[Len(a)])

BIsOdd(a) == a # <<>> /\ a[1] % 2 = 1

BOne == <<1>>

\* the largest digit q < LimbBase with b * q <= cur, found bit by bit
RECURSIVE BDigit(_, _, _, _)
BDigit(cur, b, bit, q) ==
    IF bit < 0 THEN q
    ELSE LET dg_try == q + 2 ^ bit
         IN  IF BCmp(BMulSmall(b, dg_try), cur) <= 0
             THEN BDigit(cur, b, bit - 1, dg_try)
             ELSE BDigit(cur, b, bit - 1, q)

\* floor(a / b) and whether a remainder is left, by long division over the
\* limbs of a from the top (b > 0)
RECURSIVE BDivAt(_, _, _, _)
BDivAt(a, b, i, rem) ==
    IF i = 0 THEN [q |-> <<>>, inexact |-> rem # <<>>]
    ELSE LET dv_cur   == BNorm(<<a[i]>> \o rem)
             dv_digit == BDigit(dv_cur, b, LimbBits - 1, 0)
             dv_rest  == BDivAt(a, b, i - 1, BSub(dv_cur, BMulSmall(b, dv_digit)))
             dv_skip  == BDivAt(a, b, i - 1, dv_cur)
         IN  IF BCmp(dv_cur, b) < 0
             THEN [q |-> dv_skip.q \o <<0>>, inexact |-> dv_skip.inexact]
             ELSE [q |-> dv_rest.q \o <<dv_digit>>, inexact |-> dv_rest.inexact]

BDiv(a, b) ==
    LET dv_res == BDivAt(a, b, Len(a), <<>>)
    IN  [q |-> BNorm(dv_res.q), inexact |-> dv_res.inexact]

(***************************************************************************)
(* Python float: IEEE-754 binary64, round to nearest, ties to even.  Every *)
(* float the evaluators and the aggregator produce is either 0 or at least *)
(* 2^-7, so it is a multiple of 2^-59; a float x is held exactly as the    *)
(* natural number x * 2^FracBits.                                          *)
(***************************************************************************)
\* the element of a one-element set; Only({e(v) : v \in {x}}) is e(x) with
\* x evaluated once, however often e uses it
Only(S) == CHOOSE v \in S : TRUE

SigBits == 52 + 1

FracBits == 4 * LimbBits

\* n (with `sticky` telling that the exact value lies strictly above n)
\* rounded to SigBits significant bits, nearest, ties to even
RoundSig(n, sticky) ==
    Only({ IF sig_len <= SigBits THEN sig_n
           ELSE Only({ Only({ IF sig_c > 0 \/ (sig_c = 0 /\ (sticky \/ BIsOdd(sig_q)))
                              THEN BShl(BAdd(sig_q, BOne), sig_len - SigBits)
                              ELSE BShl(sig_q, sig_len - SigBits) :
                              sig_c \in {BCmp(BSub(sig_n, BShl(sig_q, sig_len - SigBits)),
                                              BShl(BOne, sig_len - SigBits - 1))} }) :
                       sig_q \in {BShr(sig_n, sig_len - SigBits)} }) :
           sig_n \in {n}, sig_len \in {BitLen(n)} })

\* float(n) for an int n
FInt(n) == BShl(BFromInt(n), FracBits)

\* the float nearest to the decimal n / d (a float literal such as 0.35, or
\* the float that round(x, 2) returns)
FDec(n, d) ==
    Only({ RoundSig(BDivSmall(fdec_num, d), BModSmall(fdec_num, d) # 0) :
           fdec_num \in {BShl(BFromInt(n), FracBits)} })

FAdd(x, y) ==
    Only({ IF a = <<>> THEN b
           ELSE IF b = <<>> THEN a
           ELSE RoundSig(BAdd(a, b), FALSE) : a \in {x}, b \in {y} })

FMul(x, y) ==
    Only({ IF a = <<>> \/ b = <<>> THEN <<>>
           ELSE Only({ BShr(fmul_prod, FracBits) :
                       fmul_prod \in {RoundSig(BMul(a, b), FALSE)} }) :
           a \in {x}, b \in {y} })

\* x / y for y > 0
FDiv(x, y) ==
    Only({ IF a = <<>> THEN <<>>
           ELSE Only({ RoundSig(fdiv_res.q, fdiv_res.inexact) :
                       fdiv_res \in {BDiv(BShl(a, FracBits), b)} }) :
           a \in {x}, b \in {y} })

FLess(x, y) == Only({ BCmp(a, b) < 0 : a \in {x}, b \in {y} })

FLessEq(x, y) == Only({ BCmp(a, b) <= 0 : a \in {x}, b \in {y} })

\* round(x, 2), as the number of hundredths: Python rounds the exact binary
\* value of x correctly to 2 decimals, exact ties going to the even digit
Round2(x) ==
    Only({ Only({ Only({ IF r2_c > 0 \/ (r2_c = 0 /\ r2_k % 2 = 1) THEN r2_k + 1 ELSE r2_k :
                         r2_k \in {BToInt(r2_q)},
                         r2_c \in {BCmp(BSub(r2_n, BShl(r2_q, FracBits)),
                                        BShl(BOne, FracBits - 1))} }) :
                  r2_q \in {BShr(r2_n, FracBits)} }) :
           r2_n \in {BMulSmall(x, 100)} })

(***************************************************************************)
(* Values shared by the evaluators.  An input record (a Python dict) is a  *)
(* function from the field names that are present to their values; None is *)
(* coded as NoneVal and every comparison that Python would refuse on None  *)
(* (TypeError) is guarded by IsNone.  A call that raises yields a record   *)
(* with the field "raised".                                                *)
(***************************************************************************)
NoneVal == 0 - 1

IsNone(v) == v = NoneVal

Raise(exception, detail) == [raised |-> exception, detail |-> detail]

Raised(r) == "raised" \in DOMAIN r

\* the result of a helper that may raise instead of returning
Return(v) == [value |-> v]

\* a faulty check: a field holding a falsy value (False, 0) counted as absent
validate_data_truthy(name, data, required_fields) ==
    LET missing == SelectSeq(required_fields,
                             LAMBDA f : \/ f \notin DOMAIN data
                                        \/ f = "is_smoker" /\ ~data[f]
                                        \/ f # "is_smoker" /\ data[f] = 0)
    IN  IF missing # <<>>
        THEN Raise("ValueError", [agent |-> name, missing |-> missing])
        ELSE [ok |-> TRUE]

\* BaseAgent.validate_data: the required fields absent from data, in the
\* order of required_fields; an exception naming them if there is any
validate_data(name, data, required_fields) ==
    LET missing == SelectSeq(required_fields, LAMBDA f : f \notin DOMAIN data)
    IN  IF missing # <<>>
        THEN Raise("ValueError", [agent |-> name, missing |-> missing])
        ELSE [ok |-> TRUE]

\* a faulty cut: the bounds 25, 50 and 75 taken into the lower band
RiskLevelUpTo(risk_score) ==
    IF FLessEq(risk_score, FInt(25)) THEN "Low"
    ELSE IF FLessEq(risk_score, FInt(50)) THEN "Moderate"
    ELSE IF FLessEq(risk_score, FInt(75)) THEN "High"
    ELSE "Critical"

\* the four-band cut every evaluator applies to its unrounded float score
RiskLevelOf(risk_score) ==
    IF FLess(risk_score, FInt(25)) THEN "Low"
    ELSE IF FLess(risk_score, FInt(50)) THEN "Moderate"
    ELSE IF FLess(risk_score, FInt(75)) THEN "High"
    ELSE "Critical"

\* a recommendation string: alert is TRUE for the strings that start with
\* the warning sign, text is the rest of the string
Rec(text) == [alert |-> FALSE, text |-> text]

Alert(text) == [alert |-> TRUE, text |-> text]

(***************************************************************************)
(* CardioAgent                                                             *)
(***************************************************************************)
CardioName == "CardioAgent"

CardioRequired ==
    <<"systolic", "diastolic", "cholesterol", "is_smoker", "age", "exercise_days">>

\* `and` and `or` evaluate diastolic only when systolic does not decide
Cardio_assess_blood_pressure(systolic, diastolic) ==
    IF systolic < 120 /\ IsNone(diastolic) THEN Raise("TypeError", "<")
    ELSE IF systolic < 120 /\ diastolic < 80 THEN Return(10)
    ELSE IF systolic < 130 /\ IsNone(diastolic) THEN Raise("TypeError", "<")
    ELSE IF systolic < 130 /\ diastolic < 85 THEN Return(20)
    ELSE IF systolic < 140 THEN Return(40)
    ELSE IF IsNone(diastolic) THEN Raise("TypeError", "<")
    ELSE IF diastolic < 90 THEN Return(40)
    ELSE IF systolic < 160 \/ diastolic < 100 THEN Return(60)
    ELSE IF systolic < 180 \/ diastolic < 110 THEN Return(80)
    ELSE Return(100)

Cardio_classify_blood_pressure(systolic, diastolic) ==
    IF systolic < 120 /\ IsNone(diastolic) THEN Raise("TypeError", "<")
    ELSE IF systolic < 120 /\ diastolic < 80 THEN Return("Optimal")
    ELSE IF systolic < 130 /\ IsNone(diastolic) THEN Raise("TypeError", "<")
    ELSE IF systolic < 130 /\ diastolic < 85 THEN Return("Normal")
    ELSE IF systolic < 140 THEN Return("High Normal")
    ELSE IF IsNone(diastolic) THEN Raise("TypeError", "<")
    ELSE IF diastolic < 90 THEN Return("High Normal")
    ELSE IF systolic < 160 \/ diastolic < 100 THEN Return("Stage 1 Hypertension")
    ELSE IF systolic < 180 \/ diastolic < 110 THEN Return("Stage 2 Hypertension")
    ELSE Return("Severe Hypertension")

Cardio_assess_cholesterol(cholesterol) ==
    IF cholesterol < 200 THEN 10
    ELSE IF cholesterol < 240 THEN 50
    ELSE IF cholesterol < 280 THEN 75
    ELSE 95

Cardio_classify_cholesterol(cholesterol) ==
    IF cholesterol < 200 THEN "Desirable"
    ELSE IF cholesterol < 240 THEN "Borderline High"
    ELSE IF cholesterol < 280 THEN "High"
    ELSE "Very High"

Cardio_assess_age_risk(age) ==
    IF age < 30 THEN 10
    ELSE IF age < 40 THEN 20
    ELSE IF age < 50 THEN 35
    ELSE IF age < 60 THEN 50
    ELSE IF age < 70 THEN 70
    ELSE 85

\* a faulty ladder: the rungs of the metabolic evaluator
Cardio_assess_exercise_impact(exercise_days) ==
    IF exercise_days >= 5 THEN 10
    ELSE IF exercise_days >= 3 THEN 25
    ELSE IF exercise_days >= 1 THEN 50
    ELSE 80

Cardio_assess_exercise_risk(exercise_days) ==
    IF exercise_days >= 5 THEN 10
    ELSE IF exercise_days >= 3 THEN 30
    ELSE IF exercise_days >= 1 THEN 50
    ELSE 80

\* a faulty score: the two smoking scores swapped
Cardio_smoking_risk_swapped(is_smoker) == IF is_smoker THEN 10 ELSE 80

Cardio_smoking_risk(is_smoker) == IF is_smoker THEN 80 ELSE 10

\* the weighted sum, added left to right in float arithmetic
Cardio_risk_score(bp_risk, cholesterol_risk, smoking_risk, age_risk, exercise_risk) ==
    FAdd(FAdd(FAdd(FAdd(FMul(FInt(bp_risk), FDec(35, 100)),
                        FMul(FInt(cholesterol_risk), FDec(30, 100))),
                   FMul(FInt(smoking_risk), FDec(20, 100))),
              FMul(FInt(age_risk), FDec(10, 100))),
         FMul(FInt(exercise_risk), FDec(5, 100)))

Cardio_assess_risk(data) ==
    Only({ IF Raised(cardio_valid) THEN cardio_valid ELSE
    Only({ IF Raised(cardio_bp) THEN cardio_bp ELSE
    LET bp_risk              == cardio_bp.value
        cholesterol_risk     == Cardio_assess_cholesterol(data.cholesterol)
        smoking_risk         == Cardio_smoking_risk(data.is_smoker)
        cardio_age_risk      == Cardio_assess_age_risk(data.age)
        cardio_exercise_risk == Cardio_assess_exercise_risk(data.exercise_days)
    IN
    Only({ [risk_score |-> Round2(cardio_risk_score),
            risk_level |-> RiskLevelOf(cardio_risk_score),
            category   |-> "Cardiovascular",
            breakdown  |-> [blood_pressure |-> FInt(bp_risk),
                            cholesterol    |-> FInt(cholesterol_risk),
                            smoking        |-> FInt(smoking_risk),
                            age            |-> FInt(cardio_age_risk),
                            exercise       |-> FInt(cardio_exercise_risk)],
            details    |-> [bp_classification |->
                                Cardio_classify_blood_pressure(
                                    data.systolic, data.diastolic).value,
                            cholesterol_classification |->
                                Cardio_classify_cholesterol(data.cholesterol)]] :
        cardio_risk_score \in {Cardio_risk_score(bp_risk, cholesterol_risk, smoking_risk,
                                                 cardio_age_risk, cardio_exercise_risk)} }) :
        cardio_bp \in {Cardio_assess_blood_pressure(data.systolic, data.diastolic)} }) :
        cardio_valid \in {validate_data(CardioName, data, CardioRequired)} })

\* risk_score is the rounded score, in hundredths: round(x, 2) < 25 exactly
\* when its hundredths are < 2500, 25 being a float
Cardio_get_recommendations(risk_score) ==
    IF risk_score < 2500 THEN
        << Rec("Maintain your current healthy lifestyle"),
           Rec("Continue regular cardiovascular exercise"),
           Rec("Keep monitoring your blood pressure and cholesterol") >>
    ELSE IF risk_score < 5000 THEN
        << Rec("Consult with a healthcare provider about your cardiovascular health"),
           Rec("Increase physical activity to at least 150 minutes per week"),
           Rec("Consider dietary changes to lower cholesterol"),
           Rec("Monitor blood pressure regularly") >>
    ELSE IF risk_score < 7500 THEN
        << Rec("Schedule an appointment with a cardiologist"),
           Rec("Implement immediate lifestyle modifications"),
           Rec("Quit smoking if applicable"),
           Rec("Consider medication for blood pressure/cholesterol management"),
           Rec("Daily cardiovascular exercise as approved by your doctor") >>
    ELSE
        << Alert("URGENT: Seek immediate medical attention"),
           Rec("Schedule emergency consultation with a cardiologist"),
           Rec("Begin prescribed medication regimen"),
           Rec("Strict lifestyle modification under medical supervision"),
           Rec("Daily monitoring of vital signs") >>

(***************************************************************************)
(* MetabolicAgent                                                          *)
(***************************************************************************)
MetabolicName == "MetabolicAgent"

MetabolicRequired ==
    <<"weight_kg", "height_cm", "age", "exercise_days", "cholesterol">>

\* a faulty BMI: the height in metres not squared
Metabolic_calculate_bmi_unsquared(weight_kg, height_cm) ==
    IF height_cm = 0 THEN Raise("ZeroDivisionError", "float division by zero")
    ELSE Return(FDiv(FInt(weight_kg), FDiv(FInt(height_cm), FInt(100))))

\* weight_kg / (height_cm / 100) ** 2 in float arithmetic; dividing by a
\* zero height raises
Metabolic_calculate_bmi(weight_kg, height_cm) ==
    Only({ Only({ IF squared = <<>>
                  THEN Raise("ZeroDivisionError", "float division by zero")
                  ELSE Return(FDiv(FInt(weight_kg), squared)) :
                  squared \in {FMul(height_m, height_m)} }) :
           height_m \in {FDiv(FInt(height_cm), FInt(100))} })

Metabolic_assess_bmi_risk(bmi) ==
    IF FLess(bmi, FDec(185, 10)) THEN 40
    ELSE IF FLess(bmi, FInt(25)) THEN 10
    ELSE IF FLess(bmi, FInt(30)) THEN 45
    ELSE IF FLess(bmi, FInt(35)) THEN 70
    ELSE IF FLess(bmi, FInt(40)) THEN 85
    ELSE 95

Metabolic_classify_bmi(bmi) ==
    IF FLess(bmi, FDec(185, 10)) THEN "Underweight"
    ELSE IF FLess(bmi, FInt(25)) THEN "Normal Weight"
    ELSE IF FLess(bmi, FInt(30)) THEN "Overweight"
    ELSE IF FLess(bmi, FInt(35)) THEN "Obese Class I"
    ELSE IF FLess(bmi, FInt(40)) THEN "Obese Class II"
    ELSE "Obese Class III (Severe)"

Metabolic_assess_age_metabolic_risk(age) ==
    IF age < 30 THEN 10
    ELSE IF age < 45 THEN 25
    ELSE IF age < 60 THEN 45
    ELSE 65

Metabolic_assess_exercise_impact(exercise_days) ==
    IF exercise_days >= 5 THEN 10
    ELSE IF exercise_days >= 3 THEN 25
    ELSE IF exercise_days >= 1 THEN 50
    ELSE 80

Metabolic_assess_lipid_profile(cholesterol) ==
    IF cholesterol < 200 THEN 10
    ELSE IF cholesterol < 240 THEN 40
    ELSE IF cholesterol < 280 THEN 70
    ELSE 90

Metabolic_check_metabolic_syndrome(bmi, cholesterol) ==
    [elevated_bmi         |-> ~FLess(bmi, FInt(30)),
     elevated_cholesterol |-> cholesterol >= 240,
     risk_present         |-> ~FLess(bmi, FInt(30)) \/ cholesterol >= 240]

Metabolic_risk_score(bmi_risk, lipid_risk, exercise_risk, age_risk) ==
    FAdd(FAdd(FAdd(FMul(FInt(bmi_risk), FDec(40, 100)),
                   FMul(FInt(lipid_risk), FDec(30, 100))),
              FMul(FInt(exercise_risk), FDec(20, 100))),
         FMul(FInt(age_risk), FDec(10, 100)))

Metabolic_assess_risk(data) ==
    Only({ IF Raised(metabolic_valid) THEN metabolic_valid ELSE
    Only({ IF Raised(metabolic_bmi) THEN metabolic_bmi ELSE
    Only({
    LET bmi_risk                == Metabolic_assess_bmi_risk(bmi)
        metabolic_age_risk      == Metabolic_assess_age_metabolic_risk(data.age)
        metabolic_exercise_risk == Metabolic_assess_exercise_impact(data.exercise_days)
        lipid_risk              == Metabolic_assess_lipid_profile(data.cholesterol)
    IN
    Only({ [risk_score |-> Round2(metabolic_risk_score),
            risk_level |-> RiskLevelOf(metabolic_risk_score),
            category   |-> "Metabolic",
            bmi        |-> Round2(bmi),
            breakdown  |-> [bmi           |-> FInt(bmi_risk),
                            lipid_profile |-> FInt(lipid_risk),
                            exercise      |-> FInt(metabolic_exercise_risk),
                            age           |-> FInt(metabolic_age_risk)],
            details    |-> [bmi_classification |-> Metabolic_classify_bmi(bmi),
                            metabolic_syndrome_indicators |->
                                Metabolic_check_metabolic_syndrome(
                                    bmi, data.cholesterol)]] :
        metabolic_risk_score \in {Metabolic_risk_score(bmi_risk, lipid_risk,
                                      metabolic_exercise_risk, metabolic_age_risk)} }) :
        bmi \in {metabolic_bmi.value} }) :
        metabolic_bmi \in {Metabolic_calculate_bmi(data.weight_kg, data.height_cm)} }) :
        metabolic_valid \in {validate_data(MetabolicName, data, MetabolicRequired)} })

Metabolic_get_recommendations(risk_score) ==
    IF risk_score < 2500 THEN
        << Rec("Maintain your healthy weight and lifestyle"),
           Rec("Continue balanced diet and regular exercise"),
           Rec("Annual metabolic health screening recommended") >>
    ELSE IF risk_score < 5000 THEN
        << Rec("Consult with a nutritionist for diet optimization"),
           Rec("Increase physical activity to 30-45 minutes daily"),
           Rec("Monitor weight and BMI regularly"),
           Rec("Consider metabolic panel blood work") >>
    ELSE IF risk_score < 7500 THEN
        << Rec("Schedule consultation with endocrinologist"),
           Rec("Implement structured weight management program"),
           Rec("Regular monitoring of blood glucose and lipids"),
           Rec("Consider working with certified diabetes educator"),
           Rec("Increase exercise to 60 minutes daily, 5-6 days/week") >>
    ELSE
        << Alert("URGENT: Immediate medical evaluation required"),
           Rec("Comprehensive metabolic assessment needed"),
           Rec("May require medication management"),
           Rec("Intensive lifestyle modification program"),
           Rec("Regular medical monitoring essential") >>

(***************************************************************************)
(* NeuroAgent                                                              *)
(***************************************************************************)
NeuroName == "NeuroAgent"

NeuroRequired ==
    <<"age", "systolic", "diastolic", "cholesterol", "is_smoker", "exercise_days">>

Neuro_assess_cognitive_age_risk(age) ==
    IF age < 40 THEN 5
    ELSE IF age < 50 THEN 15
    ELSE IF age < 60 THEN 30
    ELSE IF age < 70 THEN 50
    ELSE IF age < 80 THEN 70
    ELSE 85

Neuro_stroke_age_factor(age) ==
    IF age < 45 THEN 10
    ELSE IF age < 55 THEN 25
    ELSE IF age < 65 THEN 45
    ELSE IF age < 75 THEN 65
    ELSE 80

\* `or` evaluates diastolic only when systolic is below the rung
Neuro_stroke_bp_factor(systolic, diastolic) ==
    IF systolic >= 180 THEN Return(40)
    ELSE IF IsNone(diastolic) THEN Raise("TypeError", ">=")
    ELSE IF diastolic >= 110 THEN Return(40)
    ELSE IF systolic >= 160 \/ diastolic >= 100 THEN Return(30)
    ELSE IF systolic >= 140 \/ diastolic >= 90 THEN Return(15)
    ELSE Return(0)

Neuro_stroke_cholesterol_factor(cholesterol) ==
    IF cholesterol >= 280 THEN 15
    ELSE IF cholesterol >= 240 THEN 10
    ELSE 0

\* a faulty cap: none
Neuro_stroke_uncapped(risk) == risk

\* min(risk, 100)
Neuro_stroke_cap(risk) ==
    IF FLess(FInt(100), risk) THEN FInt(100) ELSE risk

\* a faulty order: the cholesterol addend added before the multiplication
Neuro_assess_stroke_risk_smoked_last(age, systolic, diastolic, is_smoker, cholesterol) ==
    Only({ IF Raised(late_bp) THEN late_bp ELSE
    LET late_sum == FInt(Neuro_stroke_age_factor(age) + late_bp.value
                         + Neuro_stroke_cholesterol_factor(cholesterol))
    IN  Return(Neuro_stroke_cap(IF is_smoker THEN FMul(late_sum, FDec(14, 10))
                                ELSE late_sum)) :
        late_bp \in {Neuro_stroke_bp_factor(systolic, diastolic)} })

\* age and blood pressure add up, a smoker's sum is multiplied by 1.4, the
\* cholesterol addend comes after that and the cap at 100 last
Neuro_assess_stroke_risk(age, systolic, diastolic, is_smoker, cholesterol) ==
    Only({ IF Raised(stroke_bp) THEN stroke_bp ELSE
    LET stroke_sum    == FInt(Neuro_stroke_age_factor(age) + stroke_bp.value)
        stroke_smoked == IF is_smoker THEN FMul(stroke_sum, FDec(14, 10)) ELSE stroke_sum
    IN
    Only({ Return(Neuro_stroke_cap(stroke_total)) :
        stroke_total \in {FAdd(stroke_smoked,
                               FInt(Neuro_stroke_cholesterol_factor(cholesterol)))} }) :
        stroke_bp \in {Neuro_stroke_bp_factor(systolic, diastolic)} })

Neuro_assess_neuroprotection(exercise_days) ==
    IF exercise_days >= 5 THEN 10
    ELSE IF exercise_days >= 3 THEN 25
    ELSE IF exercise_days >= 1 THEN 50
    ELSE 80

Neuro_vascular_bp_component(systolic) ==
    IF systolic < 120 THEN 10
    ELSE IF systolic < 140 THEN 30
    ELSE IF systolic < 160 THEN 60
    ELSE 85

Neuro_vascular_cholesterol_component(cholesterol) ==
    IF cholesterol < 200 THEN 10
    ELSE IF cholesterol < 240 THEN 35
    ELSE 60

Neuro_assess_vascular_health(systolic, cholesterol) ==
    FDiv(FInt(Neuro_vascular_bp_component(systolic)
              + Neuro_vascular_cholesterol_component(cholesterol)),
         FInt(2))

Neuro_classify_stroke_risk(stroke_risk) ==
    IF FLess(stroke_risk, FInt(25)) THEN "Low Risk"
    ELSE IF FLess(stroke_risk, FInt(50)) THEN "Moderate Risk"
    ELSE IF FLess(stroke_risk, FInt(75)) THEN "High Risk"
    ELSE "Critical Risk"

Neuro_analyze_brain_health(data) ==
    [exercise_impact |->
        IF data.exercise_days >= 4 THEN "Excellent - strong neuroprotection"
        ELSE IF data.exercise_days >= 2 THEN "Moderate - some neuroprotection"
        ELSE "Poor - limited neuroprotection",
     vascular_status |->
        IF data.systolic < 130 /\ data.cholesterol < 200
            THEN "Healthy - supports brain health"
        ELSE IF data.systolic < 140 /\ data.cholesterol < 240
            THEN "Moderate - monitor for brain health"
        ELSE "Compromised - may affect brain health",
     smoking_impact |->
        IF data.is_smoker THEN "Negative - increases stroke and dementia risk"
        ELSE "Positive - no tobacco-related brain risks"]

Neuro_risk_score(cognitive_age_risk, stroke_risk, vascular_health, neuroprotective_factors) ==
    FAdd(FAdd(FAdd(FMul(FInt(cognitive_age_risk), FDec(25, 100)),
                   FMul(stroke_risk, FDec(35, 100))),
              FMul(vascular_health, FDec(25, 100))),
         FMul(FInt(neuroprotective_factors), FDec(15, 100)))

Neuro_assess_risk(data) ==
    Only({ IF Raised(neuro_valid) THEN neuro_valid ELSE
    Only({ IF Raised(neuro_stroke) THEN neuro_stroke ELSE
    Only({
    LET cognitive_age_risk      == Neuro_assess_cognitive_age_risk(data.age)
        neuroprotective_factors == Neuro_assess_neuroprotection(data.exercise_days)
    IN
    Only({ [risk_score |-> Round2(neuro_risk_score),
            risk_level |-> RiskLevelOf(neuro_risk_score),
            category   |-> "Neurological",
            breakdown  |-> [cognitive_aging |-> FInt(cognitive_age_risk),
                            stroke_risk     |-> stroke_risk,
                            vascular_health |-> vascular_health,
                            neuroprotection |-> FInt(neuroprotective_factors)],
            details    |-> [stroke_risk_category |->
                                Neuro_classify_stroke_risk(stroke_risk),
                            brain_health_factors |->
                                Neuro_analyze_brain_health(data)]] :
        neuro_risk_score \in {Neuro_risk_score(cognitive_age_risk, stroke_risk,
                                  vascular_health, neuroprotective_factors)} }) :
        stroke_risk \in {neuro_stroke.value},
        vascular_health \in {Neuro_assess_vascular_health(data.systolic,
                                                          data.cholesterol)} }) :
        neuro_stroke \in {Neuro_assess_stroke_risk(data.age, data.systolic, data.diastolic,
                                                    data.is_smoker, data.cholesterol)} }) :
        neuro_valid \in {validate_data(NeuroName, data, NeuroRequired)} })

\* a faulty cut: a score of exactly 75 kept in the third tier
Neuro_get_recommendations_inclusive(risk_score) ==
    IF risk_score < 2500 THEN
        << Rec("Maintain brain-healthy lifestyle habits"),
           Rec("Continue regular physical exercise for cognitive health"),
           Rec("Engage in mentally stimulating activities"),
           Rec("Monitor cardiovascular health (impacts brain health)") >>
    ELSE IF risk_score < 5000 THEN
        << Rec("Increase cardiovascular exercise (proven neuroprotective)"),
           Rec("Consider cognitive training exercises"),
           Rec("Monitor and manage blood pressure closely"),
           Rec("Ensure adequate sleep (7-9 hours nightly)"),
           Rec("Mediterranean diet recommended for brain health") >>
    ELSE IF risk_score <= 7500 THEN
        << Rec("Schedule consultation with neurologist"),
           Rec("Comprehensive vascular health assessment needed"),
           Rec("Intensive blood pressure management required"),
           Rec("Cognitive baseline testing recommended"),
           Rec("Quit smoking immediately if applicable"),
           Rec("Daily physical activity essential") >>
    ELSE
        << Alert("URGENT: Immediate neurological evaluation required"),
           Rec("High stroke risk - emergency medical consultation needed"),
           Rec("Comprehensive brain health assessment"),
           Rec("Aggressive cardiovascular risk factor management"),
           Rec("May require preventive medication (antiplatelet, statins)"),
           Rec("Consider carotid artery screening") >>

Neuro_get_recommendations(risk_score) ==
    IF risk_score < 2500 THEN
        << Rec("Maintain brain-healthy lifestyle habits"),
           Rec("Continue regular physical exercise for cognitive health"),
           Rec("Engage in mentally stimulating activities"),
           Rec("Monitor cardiovascular health (impacts brain health)") >>
    ELSE IF risk_score < 5000 THEN
        << Rec("Increase cardiovascular exercise (proven neuroprotective)"),
           Rec("Consider cognitive training exercises"),
           Rec("Monitor and manage blood pressure closely"),
           Rec("Ensure adequate sleep (7-9 hours nightly)"),
           Rec("Mediterranean diet recommended for brain health") >>
    ELSE IF risk_score < 7500 THEN
        << Rec("Schedule consultation with neurologist"),
           Rec("Comprehensive vascular health assessment needed"),
           Rec("Intensive blood pressure management required"),
           Rec("Cognitive baseline testing recommended"),
           Rec("Quit smoking immediately if applicable"),
           Rec("Daily physical activity essential") >>
    ELSE
        << Alert("URGENT: Immediate neurological evaluation required"),
           Rec("High stroke risk - emergency medical consultation needed"),
           Rec("Comprehensive brain health assessment"),
           Rec("Aggressive cardiovascular risk factor management"),
           Rec("May require preventive medication (antiplatelet, statins)"),
           Rec("Consider carotid artery screening") >>

(***************************************************************************)
(* BaseAgent: the timing wrapper and the per-agent statistics.  A span of  *)
(* the clock (a difference of two time.time() readings) is a number of     *)
(* microseconds.                                                           *)
(***************************************************************************)
\* round(elapsed * 1000, 2) in hundredths of a millisecond
MsRound2(us) ==
    LET ms_q == us \div 10
        ms_r == us % 10
    IN  IF ms_r > 5 \/ (ms_r = 5 /\ ms_q % 2 = 1) THEN ms_q + 1 ELSE ms_q

\* AggregatorAgent.__init__: the agents in the order of the dict
AgentKeys == <<"cardio", "metabolic", "neuro">>

AgentSet == {AgentKeys[i] : i \in DOMAIN AgentKeys}

AgentName(key) ==
    CASE key = "cardio"    -> CardioName
      [] key = "metabolic" -> MetabolicName
      [] key = "neuro"     -> NeuroName

\* the weight given to BaseAgent.__init__, in hundredths
AgentWeightPct(key) ==
    CASE key = "cardio"    -> 35
      [] key = "metabolic" -> 35
      [] key = "neuro"     -> 30

\* the float each weight literal denotes
AgentWeights ==
    [cardio    |-> FDec(AgentWeightPct("cardio"), 100),
     metabolic |-> FDec(AgentWeightPct("metabolic"), 100),
     neuro     |-> FDec(AgentWeightPct("neuro"), 100)]

AgentWeight(key) == AgentWeights[key]

assess_risk(key, data) ==
    CASE key = "cardio"    -> Cardio_assess_risk(data)
      [] key = "metabolic" -> Metabolic_assess_risk(data)
      [] key = "neuro"     -> Neuro_assess_risk(data)

get_recommendations(key, risk_score) ==
    CASE key = "cardio"    -> Cardio_get_recommendations(risk_score)
      [] key = "metabolic" -> Metabolic_get_recommendations(risk_score)
      [] key = "neuro"     -> Neuro_get_recommendations(risk_score)

\* BaseAgent.assess_with_timing without its append to performance_log: an
\* exception of assess_risk propagates, otherwise the result gets the agent
\* name, the rounded time and the recommendations for the rounded score
assess_with_timing(key, data, elapsed_us) ==
    Only({ IF Raised(timed_result) THEN timed_result
           ELSE [agent_name         |-> AgentName(key),
                 processing_time_ms |-> MsRound2(elapsed_us),
                 recommendations    |-> get_recommendations(key, timed_result.risk_score)]
                @@ timed_result :
           timed_result \in {assess_risk(key, data)} })

RECURSIVE FSum(_)
FSum(times) ==
    IF times = <<>> THEN <<>>
    ELSE FAdd(FSum(SubSeq(times, 1, Len(times) - 1)), FDec(times[Len(times)], 100))

RECURSIVE SeqMax(_)
SeqMax(times) ==
    IF Len(times) = 1 THEN times[1]
    ELSE LET max_rest == SeqMax(Tail(times)) IN IF times[1] > max_rest THEN times[1] ELSE max_rest

RECURSIVE SeqMin(_)
SeqMin(times) ==
    IF Len(times) = 1 THEN times[1]
    ELSE LET min_rest == SeqMin(Tail(times)) IN IF times[1] < min_rest THEN times[1] ELSE min_rest

\* BaseAgent.get_performance_stats over a log of processing_time_ms values
\* (in hundredths of a millisecond)
get_performance_stats(log) ==
    IF log = <<>>
    THEN [avg_time_ms |-> 0, max_time_ms |-> 0, min_time_ms |-> 0]
    ELSE [avg_time_ms       |-> Round2(FDiv(FSum(log), FInt(Len(log)))),
          max_time_ms       |-> SeqMax(log),
          min_time_ms       |-> SeqMin(log),
          total_assessments |-> Len(log)]

(***************************************************************************)
(* AggregatorAgent                                                         *)
(***************************************************************************)
\* a faulty error entry: a score of 0 where the code stores None
ErrorEntryZeroScore(key, exc) ==
    [error |-> exc, risk_score |-> 0, agent_name |-> key]

\* the entry assess_comprehensive_risk stores for an agent that raised
ErrorEntry(key, exc) ==
    [error |-> exc, risk_score |-> NoneVal, agent_name |-> key]

\* a faulty loop: an agent that took more than a second is given up and
\* stored as an error entry
RunAgentTimedOut(key, data, elapsed_us) ==
    Only({ IF Raised(run_result) THEN ErrorEntry(key, run_result)
           ELSE IF elapsed_us > 1000 * 1000
                THEN ErrorEntry(key, Raise("TimeoutError", elapsed_us))
                ELSE run_result :
           run_result \in {assess_with_timing(key, data, elapsed_us)} })

\* the loop over self.agents: every agent is run, an exception becomes an
\* error entry; elapsed gives each agent's span of the clock
RunAgent(key, data, elapsed_us) ==
    Only({ IF Raised(run_result) THEN ErrorEntry(key, run_result) ELSE run_result :
           run_result \in {assess_with_timing(key, data, elapsed_us)} })

RunAgents(data, elapsed) ==
    [cardio    |-> RunAgent("cardio", data, elapsed.cardio),
     metabolic |-> RunAgent("metabolic", data, elapsed.metabolic),
     neuro     |-> RunAgent("neuro", data, elapsed.neuro)]

Counted(result) ==
    "error" \notin DOMAIN result /\ result.risk_score # NoneVal

\* a faulty sum: the scores added up without their weights
RECURSIVE SumOfScores(_, _)
SumOfScores(agent_results, n) ==
    IF n = 0 THEN <<>>
    ELSE LET ss_key  == AgentKeys[n]
             ss_rest == SumOfScores(agent_results, n - 1)
         IN  IF Counted(agent_results[ss_key])
             THEN FAdd(ss_rest, FDec(agent_results[ss_key].risk_score, 100))
             ELSE ss_rest

RECURSIVE WeightedSum(_, _)
WeightedSum(agent_results, n) ==
    IF n = 0 THEN <<>>
    ELSE LET ws_key  == AgentKeys[n]
             ws_rest == WeightedSum(agent_results, n - 1)
         IN  IF Counted(agent_results[ws_key])
             THEN FAdd(ws_rest, FMul(FDec(agent_results[ws_key].risk_score, 100),
                                  AgentWeight(ws_key)))
             ELSE ws_rest

\* a faulty divisor: the weights of all the agents, failed ones included
RECURSIVE TotalWeightOfAll(_, _)
TotalWeightOfAll(agent_results, n) ==
    IF n = 0 THEN <<>>
    ELSE FAdd(TotalWeightOfAll(agent_results, n - 1), AgentWeight(AgentKeys[n]))

RECURSIVE TotalWeight(_, _)
TotalWeight(agent_results, n) ==
    IF n = 0 THEN <<>>
    ELSE LET tw_key  == AgentKeys[n]
             tw_rest == TotalWeight(agent_results, n - 1)
         IN  IF Counted(agent_results[tw_key])
             THEN FAdd(tw_rest, AgentWeight(tw_key))
             ELSE tw_rest

\* the band of the unrounded overall score
OverallLevel(overall_score) ==
    IF FLess(overall_score, FInt(25)) THEN "Low"
    ELSE IF FLess(overall_score, FInt(50)) THEN "Moderate"
    ELSE IF FLess(overall_score, FInt(75)) THEN "High"
    ELSE "Critical"

calculate_overall_index(agent_results) ==
    Only({ IF total_weight = <<>>
           THEN [score |-> 0, level |-> "Unknown"]
           ELSE Only({ [score |-> Round2(overall_score),
                        level |-> OverallLevel(overall_score),
                        weights_used |->
                            [key \in {k \in AgentSet :
                                         "error" \notin DOMAIN agent_results[k]}
                                |-> AgentWeightPct(key)]] :
                       overall_score \in {FDiv(weighted_sum, total_weight)} }) :
           weighted_sum \in {WeightedSum(agent_results, Len(AgentKeys))},
           total_weight \in {TotalWeight(agent_results, Len(AgentKeys))} })

\* a faulty collection: the agents taken from the last to the first
RECURSIVE CollectedBackwards(_, _)
CollectedBackwards(agent_results, n) ==
    IF n = 0 THEN <<>>
    ELSE LET back_result == agent_results[AgentKeys[n]]
         IN  (IF "recommendations" \in DOMAIN back_result THEN back_result.recommendations ELSE <<>>)
             \o CollectedBackwards(agent_results, n - 1)

\* all recommendations of the agents, in the order of the agents
RECURSIVE Collected(_, _)
Collected(agent_results, n) ==
    IF n = 0 THEN <<>>
    ELSE LET coll_result == agent_results[AgentKeys[n]]
         IN  Collected(agent_results, n - 1)
             \o (IF "recommendations" \in DOMAIN coll_result THEN coll_result.recommendations ELSE <<>>)

\* the strings of recs not in seen, each once, in first-seen order
RECURSIVE Dedup(_, _)
Dedup(recs, seen) ==
    IF recs = <<>> THEN <<>>
    ELSE IF Head(recs) \in seen THEN Dedup(Tail(recs), seen)
    ELSE <<Head(recs)>> \o Dedup(Tail(recs), seen \cup {Head(recs)})

SeqSet(q) == {q[i] : i \in DOMAIN q}

HealthySummary ==
    Rec("Continue maintaining healthy lifestyle habits across all health domains")

ConcernSummary ==
    Rec("Multiple health concerns identified - comprehensive medical evaluation recommended")

\* a faulty cut: the whole list
Untruncated(q, n) == q

\* a faulty cut: the last n elements
KeepLast(q, n) == SubSeq(q, IF Len(q) < n THEN 1 ELSE Len(q) - n + 1, Len(q))

Truncate(q, n) == SubSeq(q, 1, IF Len(q) < n THEN Len(q) ELSE n)

\* a faulty merge: the lines in the order of the agents, urgent or not
integrate_in_agent_order(agent_results) ==
    LET merged_recs == Collected(agent_results, Len(AgentKeys))
        merged_summary == IF \E i \in DOMAIN merged_recs : merged_recs[i].alert
                          THEN ConcernSummary ELSE HealthySummary
    IN  Truncate(<<merged_summary>> \o Dedup(merged_recs, {}), 15)

integrate_recommendations(agent_results) ==
    LET recs                     == Collected(agent_results, Len(AgentKeys))
        critical_recommendations == SelectSeq(recs, LAMBDA rec : rec.alert)
        all_recommendations      == SelectSeq(recs, LAMBDA rec : ~rec.alert)
        first                    == Dedup(critical_recommendations, {})
        integrated               == first \o Dedup(all_recommendations, SeqSet(first))
        summary                  == IF Len(critical_recommendations) = 0
                                    THEN HealthySummary ELSE ConcernSummary
    IN  Truncate(<<summary>> \o integrated, 15)

\* list.sort(key = risk_score, reverse = True): stable, by insertion
RECURSIVE InsertByScore(_, _)
InsertByScore(entry, sorted) ==
    IF sorted = <<>> THEN <<entry>>
    ELSE IF Head(sorted).risk_score >= entry.risk_score
         THEN <<Head(sorted)>> \o InsertByScore(entry, Tail(sorted))
         ELSE <<entry>> \o sorted

\* a faulty order: the entries as they were found
Unsorted(q) == q

RECURSIVE SortByScore(_)
SortByScore(q) ==
    IF q = <<>> THEN <<>>
    ELSE InsertByScore(q[Len(q)], SortByScore(SubSeq(q, 1, Len(q) - 1)))

\* a faulty priority: urgent from a score of 50
RECURSIVE CriticalOfEager(_, _)
CriticalOfEager(agent_results, n) ==
    IF n = 0 THEN <<>>
    ELSE LET crit_agent == AgentKeys[n]
             crit_result     == agent_results[crit_agent]
             crit_rest       == CriticalOfEager(agent_results, n - 1)
         IN  IF "error" \in DOMAIN crit_result THEN crit_rest
             ELSE IF crit_result.risk_level \in {"High", "Critical"}
                     \/ crit_result.risk_score >= 7500
             THEN crit_rest \o <<[category   |-> crit_result.category,
                             risk_level |-> crit_result.risk_level,
                             risk_score |-> crit_result.risk_score,
                             agent      |-> crit_agent,
                             priority   |-> IF crit_result.risk_score >= 5000
                                            THEN "urgent" ELSE "high"]>>
             ELSE crit_rest

RECURSIVE CriticalOf(_, _)
CriticalOf(agent_results, n) ==
    IF n = 0 THEN <<>>
    ELSE LET crit_agent == AgentKeys[n]
             crit_result     == agent_results[crit_agent]
             crit_rest       == CriticalOf(agent_results, n - 1)
         IN  IF "error" \in DOMAIN crit_result THEN crit_rest
             ELSE IF crit_result.risk_level \in {"High", "Critical"}
                     \/ crit_result.risk_score >= 7500
             THEN crit_rest \o <<[category   |-> crit_result.category,
                             risk_level |-> crit_result.risk_level,
                             risk_score |-> crit_result.risk_score,
                             agent      |-> crit_agent,
                             priority   |-> IF crit_result.risk_score >= 7500
                                            THEN "urgent" ELSE "high"]>>
             ELSE crit_rest

identify_critical_areas(agent_results) ==
    SortByScore(CriticalOf(agent_results, Len(AgentKeys)))

\* the 3 s performance target, in microseconds of the clock
TargetUs == 3000000

PerformanceStatus(total_us) == IF total_us <= TargetUs THEN "optimal" ELSE "degraded"

\* the dict assess_comprehensive_risk returns (timestamp and assessment id,
\* which derive from the clock alone, are left out)
Assessment(agent_results, total_us) ==
    LET overall_index == calculate_overall_index(agent_results)
    IN  [overall_health_index       |-> overall_index.score,
         overall_risk_level         |-> overall_index.level,
         agent_assessments          |-> agent_results,
         critical_areas             |-> identify_critical_areas(agent_results),
         integrated_recommendations |-> integrate_recommendations(agent_results),
         performance |->
             [total_time_ms |-> MsRound2(total_us),
              status        |-> PerformanceStatus(total_us),
              agent_times   |->
                  [key \in AgentSet |->
                      IF "processing_time_ms" \in DOMAIN agent_results[key]
                      THEN agent_results[key].processing_time_ms ELSE 0]],
         metadata |-> [agents_used |-> AgentKeys]]

\* a faulty log: the latest entry alone
log_latest_only(log, assessment) ==
    <<[total_time_ms |-> assessment.performance.total_time_ms,
       overall_score |-> assessment.overall_health_index]>>

\* self.assessment_log.append(...), without the timestamp
log_assessment(log, assessment) ==
    Append(log, [total_time_ms |-> assessment.performance.total_time_ms,
                 overall_score |-> assessment.overall_health_index])

LogTimes(log) == [i \in DOMAIN log |-> log[i].total_time_ms]

\* the 3000 ms target of the running average
TargetMs == 3000

\* a faulty comparison: avg_time < 3000
MeetsTargetStrictly(avg_time) == FLess(avg_time, FInt(TargetMs))

\* avg_time <= 3000
MeetsTarget(avg_time) == FLessEq(avg_time, FInt(TargetMs))

get_overall_performance_stats(log) ==
    IF log = <<>>
    THEN [total_assessments      |-> 0,
          avg_time_ms            |-> 0,
          performance_target_met |-> NoneVal]
    ELSE Only({ Only({ [total_assessments      |-> Len(log),
                        avg_time_ms            |-> Round2(avg_time),
                        max_time_ms            |-> SeqMax(times),
                        min_time_ms            |-> SeqMin(times),
                        performance_target_met |-> MeetsTarget(avg_time),
                        target_ms              |-> TargetMs] :
                       avg_time \in {FDiv(FSum(times), FInt(Len(times)))} }) :
                times \in {LogTimes(log)} })

(***************************************************************************)
(* The state: one AggregatorAgent instance with its three agents.          *)
(***************************************************************************)
VARIABLES
    assessment_log,    \* AggregatorAgent.assessment_log
    performance_log,   \* BaseAgent.performance_log of each agent
    data,              \* the input of the latest assess_comprehensive_risk
    result,            \* what the latest assess_comprehensive_risk returned
    stats,             \* what the latest get_overall_performance_stats returned
    agent_stats,       \* what the latest get_agent_performance_stats returned
    calls,             \* the number of completed assess_comprehensive_risk calls
    threads,           \* the requests being served on the shared instance
    risk_assessments,  \* the rows of the table risk_assessments, in rowid order
    last_rowid,        \* the largest rowid the table has ever held (AUTOINCREMENT)
    now,               \* the clock of CURRENT_TIMESTAMP, in whole seconds
    request,           \* the latest HTTP request
    response           \* the response to it

\* the assessment store and the HTTP exchange
store_vars == <<risk_assessments, last_rowid, now, request, response>>

vars == <<assessment_log, performance_log, data, result, stats, agent_stats, calls,
          threads, risk_assessments, last_rowid, now, request, response>>

\* the number of requests served at the same time
NumThreads == 2

Threads == 1..NumThreads

\* where a request stands: not started, about to run the agent of that
\* index, about to merge, returned
Idle == 0

Merging == Len(AgentKeys) + 1

Done == Len(AgentKeys) + 2

\* nothing returned yet
Nothing == [returned |-> FALSE]

Init ==
    /\ assessment_log = <<>>
    /\ performance_log = [key \in AgentSet |-> <<>>]
    /\ data = Nothing
    /\ result = Nothing
    /\ stats = Nothing
    /\ agent_stats = Nothing
    /\ calls = 0
    /\ threads = [t \in Threads |-> [pc |-> Idle]]
    /\ risk_assessments = <<>>
    /\ last_rowid = 0
    /\ now = 0
    /\ request = Nothing
    /\ response = Nothing

\* a faulty append: the entry written over the last one, which is lost
log_performance_over_last(log, processing_time_ms) ==
    IF log = <<>> THEN <<processing_time_ms>>
    ELSE [log EXCEPT ![Len(log)] = processing_time_ms]

\* self.performance_log.append(...) of assess_with_timing, without the
\* timestamp; list.append is one indivisible step of the interpreter
log_performance(log, processing_time_ms) == Append(log, processing_time_ms)

\* AggregatorAgent.assess_comprehensive_risk(d): every agent is run through
\* assess_with_timing, which appends to the agent's performance_log when it
\* returns; the assessment is built and appended to assessment_log.
\* elapsed[key] is the span of the clock inside the agent, total_us the span
\* of the whole call.
assess_comprehensive_risk_on_instance(d, elapsed, total_us) ==
    \E agent_results \in {RunAgents(d, elapsed)} :
    \E assessment \in {Assessment(agent_results, total_us)} :
        /\ data' = d
        /\ result' = assessment
        /\ performance_log' =
               [key \in AgentSet |->
                   IF "error" \in DOMAIN agent_results[key]
                   THEN performance_log[key]
                   ELSE log_performance(performance_log[key],
                                        agent_results[key].processing_time_ms)]
        /\ assessment_log' = log_assessment(assessment_log, assessment)
        /\ calls' = calls + 1

\* the call made directly on the instance, outside any route
assess_comprehensive_risk(d, elapsed, total_us) ==
    /\ assess_comprehensive_risk_on_instance(d, elapsed, total_us)
    /\ UNCHANGED <<stats, agent_stats, threads>>
    /\ UNCHANGED store_vars

GetOverallPerformanceStats ==
    /\ stats' = get_overall_performance_stats(assessment_log)
    /\ UNCHANGED <<assessment_log, performance_log, data, result, agent_stats, calls,
                   threads>>
    /\ UNCHANGED store_vars

GetAgentPerformanceStats ==
    /\ agent_stats' = [key \in AgentSet |-> get_performance_stats(performance_log[key])]
    /\ UNCHANGED <<assessment_log, performance_log, data, result, stats, calls,
                   threads>>
    /\ UNCHANGED store_vars


(***************************************************************************)
(* Inputs and the clock.                                                   *)
(***************************************************************************)
Without(d, fields) == [f \in DOMAIN d \ fields |-> d[f]]

Ages == {35, 57, 72}

Systolics == {110, 135, 190}

Diastolics == {82, 95, 115, NoneVal}

Cholesterols == {180, 300}

ExerciseDays == {0, 5}

\* weight_kg and height_cm
Bodies == {<<50, 175>>, <<70, 175>>, <<130, 175>>, <<70, 0>>}

CompleteInputs ==
    { [age |-> a, weight_kg |-> b[1], height_cm |-> b[2], systolic |-> s,
       diastolic |-> di, cholesterol |-> c, is_smoker |-> sm, exercise_days |-> e] :
        a \in Ages, b \in Bodies, s \in Systolics, di \in Diastolics,
        c \in Cholesterols, sm \in BOOLEAN, e \in ExerciseDays }

MissingSets == {{"weight_kg"}, {"systolic", "diastolic"}, {"age"}, {"is_smoker"}}

Healthy ==
    [age |-> 35, weight_kg |-> 70, height_cm |-> 175, systolic |-> 110,
     diastolic |-> 82, cholesterol |-> 180, is_smoker |-> FALSE, exercise_days |-> 5]

Risky ==
    [age |-> 72, weight_kg |-> 130, height_cm |-> 175, systolic |-> 190,
     diastolic |-> 115, cholesterol |-> 300, is_smoker |-> TRUE, exercise_days |-> 0]

Middling ==
    [age |-> 57, weight_kg |-> 70, height_cm |-> 175, systolic |-> 135,
     diastolic |-> 95, cholesterol |-> 300, is_smoker |-> TRUE, exercise_days |-> 0]

\* one value between every two neighbouring bounds of every ladder
RungAges == {25, 35, 42, 47, 52, 57, 62, 67, 72, 77, 85}

RungSystolics == {110, 125, 135, 150, 170, 190}

RungDiastolics == {75, 82, 87, 95, 105, 115}

RungCholesterols == {180, 220, 250, 300}

RungExerciseDays == 0..5

RungWeights == {50, 70, 85, 100, 115, 130}

\* the three records above with one field at a time taken through its rungs
Sweeps ==
    UNION { { [base EXCEPT !.age = a] : a \in RungAges }
            \cup { [base EXCEPT !.systolic = sy] : sy \in RungSystolics }
            \cup { [base EXCEPT !.diastolic = di] : di \in RungDiastolics }
            \cup { [base EXCEPT !.cholesterol = c] : c \in RungCholesterols }
            \cup { [base EXCEPT !.exercise_days = e] : e \in RungExerciseDays }
            \cup { [base EXCEPT !.weight_kg = w] : w \in RungWeights } :
            base \in {Healthy, Risky, Middling} }

WideInputs ==
    CompleteInputs
    \cup Sweeps
    \cup { Without(d, m) : d \in {x \in CompleteInputs : x.height_cm # 0 /\ x.age = 72
                                     /\ x.diastolic = 115},
                           m \in MissingSets }

\* a complete record, one on which every evaluator raises, and one on which
\* the metabolic evaluator alone raises
Inputs == {Healthy, Without(Risky, {"age"}), [Risky EXCEPT !.height_cm = 0]}

\* spans of the clock in microseconds: the whole call and, inside it, each
\* agent
Timings ==
    { [total_us |-> 1000000, elapsed |-> [cardio |-> 40, metabolic |-> 25, neuro |-> 1250]],
      [total_us |-> 3000004, elapsed |-> [cardio |-> 15, metabolic |-> 15, neuro |-> 15]],
      [total_us |-> 3000010, elapsed |-> [cardio |-> 1000000, metabolic |-> 5, neuro |-> 2000000]],
      [total_us |-> 5000000, elapsed |-> [cardio |-> 4999000, metabolic |-> 40, neuro |-> 40]] }

MaxCalls == 2

\* a call of assess_comprehensive_risk on the shared instance
Assess ==
    \E d \in Inputs, t \in Timings :
        /\ calls < MaxCalls
        /\ assess_comprehensive_risk(d, t.elapsed, t.total_us)

Next ==
    \/ Assess
    \/ GetOverallPerformanceStats
    \/ GetAgentPerformanceStats

Spec == Init /\ [][Next]_vars

\* one assessment of any input of the wide set, on an instance just built
AssessWide ==
    \E d \in WideInputs :
        /\ calls = 0
        /\ assess_comprehensive_risk(d, [cardio |-> 40, metabolic |-> 25, neuro |-> 1250], 1500)

NextWide == AssessWide

SpecWide == Init /\ [][NextWide]_vars

(***************************************************************************)
(* Requests served at the same time by the one AggregatorAgent of the      *)
(* aggregate route.  A request runs assess_comprehensive_risk step by      *)
(* step: each agent in the order of the dict (its assess_with_timing ends  *)
(* with the append to the agent's performance_log), then the merge and the *)
(* append to assessment_log.  Steps of different requests interleave       *)
(* freely.                                                                 *)
(***************************************************************************)
ThreadInputs == {Healthy, Risky, Without(Risky, {"age"}), [Risky EXCEPT !.height_cm = 0]}

ThreadTimings == {tm \in Timings : tm.total_us \in {1000000, 5000000}}

\* a request enters assess_comprehensive_risk with its own input record
Begin(t) ==
    \E d \in ThreadInputs, tm \in ThreadTimings :
        /\ threads[t].pc = Idle
        /\ threads' = [threads EXCEPT ![t] =
               [pc |-> 1, given |-> d, health_data |-> d, timing |-> tm,
                agent_results |-> <<>>]]
        /\ UNCHANGED <<assessment_log, performance_log, data, result, stats, agent_stats,
                       calls>>
        /\ UNCHANGED store_vars

\* one turn of the loop over self.agents: assess_with_timing of the next
\* agent on the request's record, the append to that agent's log unless the
\* agent raised, and the entry put into agent_results
RunNextAgent(t) ==
    /\ threads[t].pc \in DOMAIN AgentKeys
    /\ \E key \in {AgentKeys[threads[t].pc]} :
       \E entry \in {RunAgent(key, threads[t].health_data, threads[t].timing.elapsed[key])} :
           /\ performance_log' =
                  IF "error" \in DOMAIN entry THEN performance_log
                  ELSE [performance_log EXCEPT ![key] =
                           log_performance(@, entry.processing_time_ms)]
           /\ threads' = [threads EXCEPT ![t] =
                  [pc            |-> threads[t].pc + 1,
                   given         |-> threads[t].given,
                   health_data   |-> threads[t].health_data,
                   timing        |-> threads[t].timing,
                   agent_results |-> (key :> entry) @@ threads[t].agent_results]]
    /\ UNCHANGED <<assessment_log, data, result, stats, agent_stats, calls>>
    /\ UNCHANGED store_vars

\* the rest of assess_comprehensive_risk: the merge, the append to
\* assessment_log and the return
Finish(t) ==
    /\ threads[t].pc = Merging
    /\ \E assessment \in {Assessment(threads[t].agent_results,
                                       threads[t].timing.total_us)} :
           /\ assessment_log' = log_assessment(assessment_log, assessment)
           /\ threads' = [threads EXCEPT ![t] =
                  [pc          |-> Done,
                   given       |-> threads[t].given,
                   health_data |-> threads[t].health_data,
                   timing      |-> threads[t].timing,
                   returned    |-> assessment]]
           /\ data' = threads[t].health_data
           /\ result' = assessment
    /\ calls' = calls + 1
    /\ UNCHANGED <<performance_log, stats, agent_stats>>
    /\ UNCHANGED store_vars

NextThreads == \E t \in Threads : Begin(t) \/ RunNextAgent(t) \/ Finish(t)

SpecThreads == Init /\ [][NextThreads]_vars

(***************************************************************************)
(* One evaluator called on its own, as the unit tests do: the first        *)
(* assess_with_timing on agents just built.  A call that raises returns    *)
(* nothing and leaves the agent's log alone.                               *)
(***************************************************************************)
\* records around the low cardiovascular profile (pressure below 120/80,
\* cholesterol below 200, five or more exercise days), at several ages
LowProfileInputs ==
    { [age |-> a, weight_kg |-> 70, height_cm |-> 175, systolic |-> bp[1],
       diastolic |-> bp[2], cholesterol |-> c, is_smoker |-> FALSE, exercise_days |-> e] :
        a \in {25, 30, 45, 65, 85}, bp \in {<<115, 75>>, <<119, 79>>, <<120, 75>>, <<115, 80>>},
        c \in {180, 199, 200}, e \in {4, 5, 7} }

\* records around the high cardiovascular profile (smoker, pressure from
\* 160/100, cholesterol from 280, age from 60, no exercise)
HighProfileInputs ==
    { [age |-> a, weight_kg |-> 70, height_cm |-> 175, systolic |-> bp[1],
       diastolic |-> bp[2], cholesterol |-> c, is_smoker |-> sm, exercise_days |-> e] :
        a \in {59, 60, 65, 90},
        bp \in {<<170, 100>>, <<160, 100>>, <<159, 100>>, <<170, 99>>, <<200, 120>>},
        c \in {279, 280, 300}, sm \in BOOLEAN, e \in {0, 1} }

\* weight_kg and height_cm on both sides of the bounds of the BMI classes
BmiBodies ==
    {<<70, 175>>, <<50, 175>>, <<75, 175>>, <<120, 170>>, <<140, 200>>, <<139, 200>>,
     <<101, 170>>, <<102, 170>>, <<120, 200>>, <<119, 200>>, <<160, 200>>, <<159, 200>>,
     <<74, 200>>, <<100, 200>>, <<99, 200>>, <<57, 175>>, <<56, 175>>, <<130, 160>>}

BmiInputs ==
    { [Healthy EXCEPT !.weight_kg = b[1], !.height_cm = b[2]] : b \in BmiBodies }

AgentInputs == LowProfileInputs \cup HighProfileInputs \cup BmiInputs \cup Inputs

\* agent.assess_with_timing(d) for a record d of inputs, the first call on
\* the agent
AssessWithTimingOn(key, inputs) ==
    \E d \in inputs :
    \E timed \in {assess_with_timing(key, d, 40)} :
        /\ result = Nothing
        /\ data' = d
        /\ result' = timed
        /\ performance_log' =
               IF Raised(timed) THEN performance_log
               ELSE [performance_log EXCEPT ![key] =
                        log_performance(@, timed.processing_time_ms)]
        /\ UNCHANGED <<assessment_log, stats, agent_stats, calls, threads>>
        /\ UNCHANGED store_vars

AssessWithTiming(key) == AssessWithTimingOn(key, AgentInputs)

NextAgents == \E key \in AgentSet : AssessWithTiming(key)

SpecAgents == Init /\ [][NextAgents]_vars

(***************************************************************************)
(* The evaluators on records that take every ladder through its rungs.     *)
(***************************************************************************)
\* systolic and diastolic: every rung of the pressure ladders, reached by
\* either side of its condition
RungPressures ==
    {<<110, 75>>, <<115, 82>>, <<125, 82>>, <<125, 87>>, <<135, 95>>, <<150, 87>>,
     <<150, 95>>, <<170, 95>>, <<150, 105>>, <<170, 105>>, <<190, 105>>, <<170, 115>>,
     <<190, 115>>}

\* one age in every rung of the age ladder of the cardiovascular evaluator
CardioRungAges == {25, 35, 45, 55, 65, 75}

\* one age in every rung of the age ladder of the metabolic evaluator
MetabolicRungAges == {25, 35, 50, 65}

\* exercise days in every rung of the exercise ladders
LadderExerciseDays == {0, 1, 3, 5}

\* weight_kg and height_cm in every BMI class, and on the bounds 25 and 30
RungBodies ==
    {<<50, 175>>, <<70, 175>>, <<85, 175>>, <<100, 175>>, <<115, 175>>, <<130, 175>>,
     <<64, 160>>, <<100, 200>>, <<120, 200>>}

CardioLadderInputs ==
    { [age |-> a, weight_kg |-> 70, height_cm |-> 175, systolic |-> bp[1],
       diastolic |-> bp[2], cholesterol |-> c, is_smoker |-> sm, exercise_days |-> e] :
        a \in CardioRungAges, bp \in RungPressures, c \in RungCholesterols,
        sm \in BOOLEAN, e \in LadderExerciseDays }

MetabolicLadderInputs ==
    { [age |-> a, weight_kg |-> b[1], height_cm |-> b[2], systolic |-> 110,
       diastolic |-> 75, cholesterol |-> c, is_smoker |-> FALSE, exercise_days |-> e] :
        a \in MetabolicRungAges, b \in RungBodies, c \in RungCholesterols,
        e \in LadderExerciseDays }

NeuroLadderInputs ==
    { [age |-> a, weight_kg |-> 70, height_cm |-> 175, systolic |-> bp[1],
       diastolic |-> bp[2], cholesterol |-> c, is_smoker |-> sm, exercise_days |-> e] :
        a \in RungAges, bp \in RungPressures, c \in RungCholesterols,
        sm \in BOOLEAN, e \in LadderExerciseDays }

\* the values on both sides of every bound of the ladders
BoundAges == {29, 30, 39, 40, 44, 45, 49, 50, 54, 55, 59, 60, 64, 65, 69, 70, 74, 75, 79, 80}

BoundSystolics == {119, 120, 129, 130, 139, 140, 159, 160, 179, 180}

BoundDiastolics == {79, 80, 84, 85, 89, 90, 99, 100, 109, 110}

BoundCholesterols == {199, 200, 239, 240, 279, 280}

BoundExerciseDays == 0..7

\* three records with one field at a time taken to the bounds
BoundSweeps ==
    UNION { { [base EXCEPT !.age = a] : a \in BoundAges }
            \cup { [base EXCEPT !.systolic = sy] : sy \in BoundSystolics }
            \cup { [base EXCEPT !.diastolic = di] : di \in BoundDiastolics }
            \cup { [base EXCEPT !.cholesterol = c] : c \in BoundCholesterols }
            \cup { [base EXCEPT !.exercise_days = e] : e \in BoundExerciseDays } :
            base \in {Healthy, Risky, Middling} }

LadderInputs ==
    [cardio    |-> CardioLadderInputs \cup BoundSweeps,
     metabolic |-> MetabolicLadderInputs \cup BoundSweeps,
     neuro     |-> NeuroLadderInputs \cup BoundSweeps]

AssessLadders(key) == AssessWithTimingOn(key, LadderInputs[key])

NextLadders == \E key \in AgentSet : AssessLadders(key)

SpecLadders == Init /\ [][NextLadders]_vars

(***************************************************************************)
(* RiskCalculator, the single-score calculator behind POST /api/risk.      *)
(***************************************************************************)
\* weight_kg / (height_cm / 100) ** 2
calculate_bmi(weight_kg, height_cm) ==
    Only({ Only({ IF squared = <<>>
                  THEN Raise("ZeroDivisionError", "float division by zero")
                  ELSE Return(FDiv(FInt(weight_kg), squared)) :
                  squared \in {FMul(height_m, height_m)} }) :
           height_m \in {FDiv(FInt(height_cm), FInt(100))} })

get_bmi_risk_score(bmi) ==
    IF FLess(bmi, FDec(185, 10)) THEN 30
    ELSE IF FLess(bmi, FInt(25)) THEN 10
    ELSE IF FLess(bmi, FInt(30)) THEN 40
    ELSE 70

get_age_risk_score(age) ==
    IF age < 30 THEN 10
    ELSE IF age < 45 THEN 20
    ELSE IF age < 60 THEN 40
    ELSE 60

get_blood_pressure_risk_score(systolic, diastolic) ==
    IF systolic < 120 /\ diastolic < 80 THEN 10
    ELSE IF systolic < 130 /\ diastolic < 80 THEN 20
    ELSE IF systolic < 140 \/ diastolic < 90 THEN 50
    ELSE 80

get_cholesterol_risk_score(total_cholesterol) ==
    IF total_cholesterol < 200 THEN 10
    ELSE IF total_cholesterol < 240 THEN 40
    ELSE 70

get_smoking_risk_score(is_smoker) == IF is_smoker THEN 60 ELSE 10

get_exercise_risk_score(exercise_days_per_week) ==
    IF exercise_days_per_week >= 5 THEN 10
    ELSE IF exercise_days_per_week >= 3 THEN 20
    ELSE IF exercise_days_per_week >= 1 THEN 40
    ELSE 60

\* the weighted sum of calculate_risk, added left to right in float
\* arithmetic
weighted_overall_score(age_score, bmi_score, bp_score, cholesterol_score, smoking_score, exercise_score) ==
    FAdd(FAdd(FAdd(FAdd(FAdd(FMul(FInt(age_score), FDec(15, 100)),
                             FMul(FInt(bmi_score), FDec(20, 100))),
                        FMul(FInt(bp_score), FDec(25, 100))),
                   FMul(FInt(cholesterol_score), FDec(20, 100))),
              FMul(FInt(smoking_score), FDec(10, 100))),
         FMul(FInt(exercise_score), FDec(10, 100)))

\* the three-band cut of calculate_risk on the unrounded score
calculator_risk_level(overall_score) ==
    IF FLess(overall_score, FInt(25)) THEN "Low"
    ELSE IF FLess(overall_score, FInt(50)) THEN "Moderate"
    ELSE "High"

\* RiskCalculator.calculate_risk(data); scores and bmi in hundredths
calculate_risk(health_data) ==
    Only({ IF Raised(calculated_bmi) THEN calculated_bmi ELSE
    Only({
    LET age_score         == get_age_risk_score(health_data.age)
        bmi_score         == get_bmi_risk_score(bmi)
        bp_score          == get_blood_pressure_risk_score(health_data.systolic,
                                                           health_data.diastolic)
        cholesterol_score == get_cholesterol_risk_score(health_data.cholesterol)
        smoking_score     == get_smoking_risk_score(health_data.is_smoker)
        exercise_score    == get_exercise_risk_score(health_data.exercise_days)
    IN
    Only({ [overall_score |-> Round2(overall_score),
            risk_level    |-> calculator_risk_level(overall_score),
            bmi           |-> Round2(bmi),
            breakdown     |-> [age            |-> age_score,
                               bmi            |-> bmi_score,
                               blood_pressure |-> bp_score,
                               cholesterol    |-> cholesterol_score,
                               smoking        |-> smoking_score,
                               exercise       |-> exercise_score]] :
        overall_score \in {weighted_overall_score(age_score, bmi_score, bp_score,
                               cholesterol_score, smoking_score, exercise_score)} }) :
        bmi \in {calculated_bmi.value} }) :
        calculated_bmi \in {calculate_bmi(health_data.weight_kg, health_data.height_cm)} })

\* RiskCalculator.calculate_risk called on its own, as its unit tests do,
\* on records that take every ladder of the calculator through its rungs
CalculatorAges == {25, 35, 50, 65}

\* weight_kg and height_cm: BMI 17.3, 22.9, exactly 25, 27.8, 29.4, 30.1 and 42.4
CalculatorBodies ==
    {<<50, 170>>, <<70, 175>>, <<64, 160>>, <<85, 175>>, <<90, 175>>, <<87, 170>>,
     <<130, 175>>}

\* every rung of the pressure ladder, the third one by each of its conditions
CalculatorPressures ==
    {<<110, 70>>, <<125, 75>>, <<135, 75>>, <<125, 85>>, <<145, 85>>, <<145, 95>>}

CalculatorCholesterols == {180, 220, 300}

CalculatorInputs ==
    {[age |-> age, weight_kg |-> body[1], height_cm |-> body[2],
      systolic |-> pressure[1], diastolic |-> pressure[2], cholesterol |-> cholesterol,
      is_smoker |-> is_smoker, exercise_days |-> exercise_days] :
        age \in CalculatorAges, body \in CalculatorBodies,
        pressure \in CalculatorPressures, cholesterol \in CalculatorCholesterols,
        is_smoker \in BOOLEAN, exercise_days \in LadderExerciseDays}
    \cup BoundSweeps

CalculateRisk ==
    \E d \in CalculatorInputs :
    \E risk_result \in {calculate_risk(d)} :
        /\ result = Nothing
        /\ data' = d
        /\ result' = risk_result
        /\ UNCHANGED <<assessment_log, performance_log, stats, agent_stats, calls, threads>>
        /\ UNCHANGED store_vars

NextCalculator == CalculateRisk

SpecCalculator == Init /\ [][NextCalculator]_vars

(***************************************************************************)
(* DatabaseManager: the table risk_assessments.  A row is a record of its  *)
(* columns; created_at is the second of the clock at the INSERT.           *)
(***************************************************************************)
\* what a method returns when it returns None
PyNone == [none |-> TRUE]

\* a Python bool bound to a column is stored as the integer 1 or 0
AdaptBool(b) == IF b THEN 1 ELSE 0

\* the keys of the breakdown dict in the order calculate_risk inserts them
BreakdownKeys ==
    <<"age", "bmi", "blood_pressure", "cholesterol", "smoking", "exercise">>

\* json.dumps(breakdown): the text, held as the list of its members
json_dumps(breakdown) ==
    LET dumped_keys == SelectSeq(BreakdownKeys, LAMBDA k : k \in DOMAIN breakdown)
    IN  [i \in DOMAIN dumped_keys |-> <<dumped_keys[i], breakdown[dumped_keys[i]]>>]

\* json.loads(text): the dict of the members of the text
json_loads(text) ==
    LET members == {text[i] : i \in DOMAIN text}
    IN  [k \in {m[1] : m \in members} |-> (CHOOSE m \in members : m[1] = k)[2]]

\* dict(row) with the breakdown parsed
LoadRow(row) == [row EXCEPT !.breakdown = json_loads(@)]

\* a faulty INSERT: the rowid taken from the number of rows, so that the id
\* of a deleted row is given out again
save_assessment_by_count(table, rowid, clock, user_id, health_data, risk_result) ==
    LET counted_row ==
            [id            |-> Len(table) + 1,
             user_id       |-> user_id,
             age           |-> health_data.age,
             weight_kg     |-> health_data.weight_kg,
             height_cm     |-> health_data.height_cm,
             systolic      |-> health_data.systolic,
             diastolic     |-> health_data.diastolic,
             cholesterol   |-> health_data.cholesterol,
             is_smoker     |-> AdaptBool(health_data.is_smoker),
             exercise_days |-> health_data.exercise_days,
             bmi           |-> risk_result.bmi,
             overall_score |-> risk_result.overall_score,
             risk_level    |-> risk_result.risk_level,
             breakdown     |-> json_dumps(risk_result.breakdown),
             created_at    |-> clock]
    IN  [risk_assessments |-> Append(table, counted_row),
         last_rowid       |-> rowid + 1,
         assessment_id    |-> Len(table) + 1]

\* DatabaseManager.save_assessment: the INSERT; AUTOINCREMENT gives the row
\* an id above every id the table has ever held; cursor.lastrowid is returned
save_assessment(table, rowid, clock, user_id, health_data, risk_result) ==
    LET saved_row ==
            [id            |-> rowid + 1,
             user_id       |-> user_id,
             age           |-> health_data.age,
             weight_kg     |-> health_data.weight_kg,
             height_cm     |-> health_data.height_cm,
             systolic      |-> health_data.systolic,
             diastolic     |-> health_data.diastolic,
             cholesterol   |-> health_data.cholesterol,
             is_smoker     |-> AdaptBool(health_data.is_smoker),
             exercise_days |-> health_data.exercise_days,
             bmi           |-> risk_result.bmi,
             overall_score |-> risk_result.overall_score,
             risk_level    |-> risk_result.risk_level,
             breakdown     |-> json_dumps(risk_result.breakdown),
             created_at    |-> clock]
    IN  [risk_assessments |-> Append(table, saved_row),
         last_rowid       |-> rowid + 1,
         assessment_id    |-> rowid + 1]

\* DatabaseManager.get_assessment_by_id
get_assessment_by_id(table, assessment_id) ==
    LET found_rows == SelectSeq(table, LAMBDA row : row.id = assessment_id)
    IN  IF found_rows = <<>> THEN PyNone ELSE LoadRow(found_rows[1])

\* DatabaseManager.delete_assessment: the table after the DELETE and
\* whether a row was deleted
delete_assessment(table, assessment_id) ==
    [risk_assessments |-> SelectSeq(table, LAMBDA row : row.id # assessment_id),
     deleted          |-> \E i \in DOMAIN table : table[i].id = assessment_id]

\* the rows of the SELECT of get_assessment_history before ORDER BY
HistoryRows(table, user_id) ==
    IF IsNone(user_id) THEN table
    ELSE SelectSeq(table, LAMBDA row : row.user_id = user_id)

\* ORDER BY created_at DESC: every order of the rows in which created_at
\* does not increase; SQL leaves the order of rows with equal created_at
\* open
OrderedByCreatedAtDesc(rows) ==
    { [i \in DOMAIN rows |-> rows[order[i]]] :
        order \in { o \in [DOMAIN rows -> DOMAIN rows] :
                       /\ \A i, j \in DOMAIN rows : i # j => o[i] # o[j]
                       /\ \A i, j \in DOMAIN rows :
                              i < j => rows[o[i]].created_at >= rows[o[j]].created_at } }

\* DatabaseManager.get_assessment_history: the lists the call can return
get_assessment_history(table, user_id, limit) ==
    { [i \in DOMAIN Truncate(ordered, limit) |-> LoadRow(ordered[i])] :
        ordered \in OrderedByCreatedAtDesc(HistoryRows(table, user_id)) }

\* the column of the rows, as a list
Column(rows, column) == [i \in DOMAIN rows |-> rows[i][column]]

\* SUM(CASE WHEN risk_level = level THEN 1 ELSE 0 END): NULL over no rows
CountLevel(rows, level) ==
    IF rows = <<>> THEN NoneVal
    ELSE Cardinality({i \in DOMAIN rows : rows[i].risk_level = level})

\* round(AVG(column), 2) if the average is not NULL and not 0, else 0; the
\* values of the column are held in hundredths
RoundedAverage(rows, column) ==
    IF rows = <<>> THEN 0
    ELSE Round2(FDiv(FSum(Column(rows, column)), FInt(Len(rows))))

\* DatabaseManager.get_statistics
get_statistics(table, user_id) ==
    Only({ [total_assessments   |-> Len(rows),
            avg_risk_score      |-> RoundedAverage(rows, "overall_score"),
            avg_bmi             |-> RoundedAverage(rows, "bmi"),
            low_risk_count      |-> CountLevel(rows, "Low"),
            moderate_risk_count |-> CountLevel(rows, "Moderate"),
            high_risk_count     |-> CountLevel(rows, "High")] :
           rows \in {HistoryRows(table, user_id)} })

(***************************************************************************)
(* The JSON body of a request and the validation both POST routes apply to *)
(* it.  A JSON value carries its type; a string is the list of its         *)
(* characters.                                                             *)
(***************************************************************************)
JsonNumber(n) == [type |-> "number", value |-> n]

JsonString(chars) == [type |-> "string", chars |-> chars]

JsonBool(b) == [type |-> "boolean", truth |-> b]

JsonNull == [type |-> "null"]

Digits == <<"0", "1", "2", "3", "4", "5", "6", "7", "8", "9">>

DigitValue(c) == (CHOOSE i \in DOMAIN Digits : Digits[i] = c) - 1

RECURSIVE ParseDigits(_)
ParseDigits(chars) ==
    IF chars = <<>> THEN 0
    ELSE 10 * ParseDigits(SubSeq(chars, 1, Len(chars) - 1)) + DigitValue(chars[Len(chars)])

\* int(v) for a JSON value: a number is taken, a bool counts 1 or 0, a
\* string of digits is parsed, any other string raises ValueError and null
\* raises TypeError
PyInt(v) ==
    CASE v.type = "number"  -> Return(v.value)
      [] v.type = "boolean" -> Return(IF v.truth THEN 1 ELSE 0)
      [] v.type = "string"  ->
            IF v.chars # <<>> /\ \A i \in DOMAIN v.chars :
                                    \E j \in DOMAIN Digits : Digits[j] = v.chars[i]
            THEN Return(ParseDigits(v.chars))
            ELSE Raise("ValueError", "invalid literal for int()")
      [] v.type = "null"    -> Raise("TypeError", "int() argument must be a number")

\* float(v), on the same values
PyFloat(v) == PyInt(v)

\* bool(v): the truth value, which never raises
PyBool(v) ==
    CASE v.type = "number"  -> v.value # 0
      [] v.type = "boolean" -> v.truth
      [] v.type = "string"  -> v.chars # <<>>
      [] v.type = "null"    -> FALSE

RequestFields ==
    <<"age", "weight_kg", "height_cm", "systolic", "diastolic", "cholesterol", "is_smoker",
      "exercise_days">>

\* jsonify(body), status
Respond(status, body) == [status |-> status, body |-> body]

BadRequest(error) == Respond(400, [error |-> error])

\* the conversions of the try block, each value or the exception it raises
Converted(body) ==
    [age           |-> PyInt(body.age),
     weight_kg     |-> PyFloat(body.weight_kg),
     height_cm     |-> PyFloat(body.height_cm),
     systolic      |-> PyInt(body.systolic),
     diastolic     |-> PyInt(body.diastolic),
     cholesterol   |-> PyInt(body.cholesterol),
     is_smoker     |-> Return(PyBool(body.is_smoker)),
     exercise_days |-> PyInt(body.exercise_days)]

\* the range checks, in the order of the code: the 400 response of the
\* first one that fails, or the health data
CheckRanges(health_data) ==
    IF ~(0 < health_data.age /\ health_data.age < 150)
    THEN BadRequest("Invalid age value")
    ELSE IF ~(20 < health_data.weight_kg /\ health_data.weight_kg < 500)
    THEN BadRequest("Invalid weight value")
    ELSE IF ~(50 < health_data.height_cm /\ health_data.height_cm < 300)
    THEN BadRequest("Invalid height value")
    ELSE IF ~(50 < health_data.systolic /\ health_data.systolic < 250)
    THEN BadRequest("Invalid systolic blood pressure")
    ELSE IF ~(30 < health_data.diastolic /\ health_data.diastolic < 150)
    THEN BadRequest("Invalid diastolic blood pressure")
    ELSE IF ~(100 < health_data.cholesterol /\ health_data.cholesterol < 400)
    THEN BadRequest("Invalid cholesterol value")
    ELSE IF ~(0 <= health_data.exercise_days /\ health_data.exercise_days <= 7)
    THEN BadRequest("Invalid exercise days value")
    ELSE [health_data |-> health_data]

\* the validation of the request body, the same lines in both POST routes:
\* a 400 response, or the health data for the calculation
ParseRequest(body) ==
    LET missing_fields == SelectSeq(RequestFields, LAMBDA f : f \notin DOMAIN body)
    IN  IF missing_fields # <<>>
        THEN Respond(400, [error |-> "Missing required fields",
                           missing |-> missing_fields])
        ELSE IF \E f \in DOMAIN Converted(body) : Raised(Converted(body)[f])
        THEN BadRequest("Invalid data type")
        ELSE CheckRanges([f \in DOMAIN Converted(body) |-> Converted(body)[f].value])

(***************************************************************************)
(* The routes: POST /api/aggregate on the shared AggregatorAgent, and the  *)
(* routes of the assessment store (POST /api/risk, GET and DELETE          *)
(* /api/history/<id>, GET /api/history).                                   *)
(***************************************************************************)
\* the parameters of DatabaseManager.save_assessment
SaveParameters == {"user_id", "health_data", "risk_result"}

\* a call by keywords binds when every keyword names a parameter and every
\* parameter (none of save_assessment has a default) is given; otherwise
\* the call raises TypeError before the body runs
BindsKeywords(keywords, parameters) == keywords = parameters

\* db_manager.save_assessment(**keywords)
CallSaveAssessment(table, rowid, clock, keywords) ==
    IF BindsKeywords(DOMAIN keywords, SaveParameters)
    THEN Return(save_assessment(table, rowid, clock, keywords.user_id, keywords.health_data,
                                keywords.risk_result))
    ELSE Raise("TypeError", "save_assessment() got an unexpected keyword argument")

\* the body as JSON: numbers, and a bool for is_smoker
ToJson(d) ==
    [f \in DOMAIN d |-> IF f = "is_smoker" THEN JsonBool(d[f]) ELSE JsonNumber(d[f])]

Guest == JsonString(<<"g", "u", "e", "s", "t">>)

InternalServerError == Respond(500, [error |-> "Internal server error"])

\* the keyword arguments of the save_assessment call of the aggregate route
AggregateSaveArguments(body, health_data, assessment_result) ==
    [user_id       |-> IF "user_id" \in DOMAIN body THEN body.user_id ELSE Guest,
     age           |-> health_data.age,
     weight_kg     |-> health_data.weight_kg,
     height_cm     |-> health_data.height_cm,
     systolic      |-> health_data.systolic,
     diastolic     |-> health_data.diastolic,
     cholesterol   |-> health_data.cholesterol,
     is_smoker     |-> health_data.is_smoker,
     exercise_days |-> health_data.exercise_days,
     risk_score    |-> assessment_result.overall_health_index,
     bmi           |-> IF "bmi" \in DOMAIN assessment_result.agent_assessments.metabolic
                       THEN assessment_result.agent_assessments.metabolic.bmi ELSE 0,
     risk_level    |-> assessment_result.overall_risk_level]

\* aggregate_routes.assess_comprehensive_risk on the request body: the
\* validation, the assessment on the shared aggregator (which appends to
\* the logs), DatabaseManager() on the default path, which db_opens tells
\* to succeed or to raise, and the save_assessment call by keywords; an
\* exception at any point after the validation ends in the 500 response
PostAggregate(body, elapsed, total_us, db_opens) ==
    /\ request' = [route |-> "POST /api/aggregate", body |-> body]
    /\ \E parsed \in {ParseRequest(body)} :
          IF "status" \in DOMAIN parsed
          THEN /\ response' = parsed
               /\ UNCHANGED <<assessment_log, performance_log, data, result, calls,
                              risk_assessments, last_rowid>>
          ELSE /\ assess_comprehensive_risk_on_instance(parsed.health_data, elapsed, total_us)
               /\ IF ~db_opens
                  THEN /\ response' = InternalServerError
                       /\ UNCHANGED <<risk_assessments, last_rowid>>
                  ELSE \E saved \in {CallSaveAssessment(risk_assessments, last_rowid, now,
                                         AggregateSaveArguments(body, parsed.health_data,
                                                                result'))} :
                         IF Raised(saved)
                         THEN /\ response' = InternalServerError
                              /\ UNCHANGED <<risk_assessments, last_rowid>>
                         ELSE /\ risk_assessments' = saved.value.risk_assessments
                              /\ last_rowid' = saved.value.last_rowid
                              /\ response' =
                                    Respond(200, IF "user_id" \in DOMAIN body
                                                 THEN ("user_id" :> body.user_id) @@ result'
                                                 ELSE result')
    /\ UNCHANGED <<stats, agent_stats, threads, now>>

\* the request bodies sent to POST /api/aggregate
AggregateBodies ==
    {ToJson(Healthy), ToJson(Risky), ToJson(Middling),
     ("user_id" :> JsonNumber(1)) @@ ToJson(Healthy),
     ToJson(Without(Healthy, {"age"})),
     [ToJson(Healthy) EXCEPT !.age = JsonNumber(200)],
     [ToJson(Healthy) EXCEPT !.age = JsonString(<<"a", "b", "c">>)]}

AggregateRequest ==
    \E body \in AggregateBodies, tm \in Timings, db_opens \in BOOLEAN :
        /\ calls < MaxCalls
        /\ PostAggregate(body, tm.elapsed, tm.total_us, db_opens)

NextAggregate == AggregateRequest

SpecAggregate == Init /\ [][NextAggregate]_vars

(***************************************************************************)
(* The routes of api_routes.py on the assessment store.  Every route opens *)
(* the database at DATABASE_PATH, which is taken to open.                  *)
(***************************************************************************)
NotFound == Respond(404, [error |-> "Assessment not found"])

\* data.get('user_id'): the number given, or None
UserIdOf(body) == IF "user_id" \in DOMAIN body THEN body.user_id.value ELSE NoneVal

\* api_routes.calculate_risk, POST /api/risk
PostRisk(body) ==
    /\ request' = [route |-> "POST /api/risk", body |-> body]
    /\ \E parsed \in {ParseRequest(body)} :
          IF "status" \in DOMAIN parsed
          THEN /\ response' = parsed
               /\ UNCHANGED <<risk_assessments, last_rowid>>
          ELSE \E risk_result \in {calculate_risk(parsed.health_data)} :
                 IF Raised(risk_result)
                 THEN /\ response' = InternalServerError
                      /\ UNCHANGED <<risk_assessments, last_rowid>>
                 ELSE \E saved \in {save_assessment(risk_assessments, last_rowid, now,
                                        UserIdOf(body), parsed.health_data, risk_result)} :
                        /\ risk_assessments' = saved.risk_assessments
                        /\ last_rowid' = saved.last_rowid
                        /\ response' =
                              Respond(200, ("assessment_id" :> saved.assessment_id)
                                           @@ risk_result)
    /\ UNCHANGED <<assessment_log, performance_log, data, result, stats, agent_stats, calls,
                   threads, now>>

\* api_routes.get_assessment, GET /api/history/<assessment_id>
GetAssessment(assessment_id) ==
    /\ request' = [route |-> "GET /api/history/<id>", assessment_id |-> assessment_id]
    /\ \E assessment \in {get_assessment_by_id(risk_assessments, assessment_id)} :
          response' = IF assessment = PyNone THEN NotFound ELSE Respond(200, assessment)
    /\ UNCHANGED <<assessment_log, performance_log, data, result, stats, agent_stats, calls,
                   threads, risk_assessments, last_rowid, now>>

\* api_routes.delete_assessment, DELETE /api/history/<assessment_id>
DeleteAssessment(assessment_id) ==
    /\ request' = [route |-> "DELETE /api/history/<id>", assessment_id |-> assessment_id]
    /\ \E done \in {delete_assessment(risk_assessments, assessment_id)} :
          /\ risk_assessments' = done.risk_assessments
          /\ response' = IF ~done.deleted THEN NotFound
                         ELSE Respond(200, [message |-> "Assessment deleted successfully"])
    /\ UNCHANGED <<assessment_log, performance_log, data, result, stats, agent_stats, calls,
                   threads, last_rowid, now>>

\* api_routes.get_history, GET /api/history
GetHistory(user_id, limit) ==
    /\ request' = [route |-> "GET /api/history", user_id |-> user_id, limit |-> limit]
    /\ IF limit < 1 \/ limit > 100
       THEN response' = BadRequest("Limit must be between 1 and 100")
       ELSE \E assessments \in get_assessment_history(risk_assessments, user_id, limit) :
              response' = Respond(200, [count |-> Len(assessments),
                                        assessments |-> assessments])
    /\ UNCHANGED <<assessment_log, performance_log, data, result, stats, agent_stats, calls,
                   threads, risk_assessments, last_rowid, now>>

\* api_routes.get_statistics, GET /api/statistics
GetStatistics(user_id) ==
    /\ request' = [route |-> "GET /api/statistics", user_id |-> user_id]
    /\ response' = Respond(200, get_statistics(risk_assessments, user_id))
    /\ UNCHANGED <<assessment_log, performance_log, data, result, stats, agent_stats, calls,
                   threads, risk_assessments, last_rowid, now>>

\* a second of the clock of the database passes
Tick ==
    /\ now' = now + 1
    /\ UNCHANGED <<assessment_log, performance_log, data, result, stats, agent_stats, calls,
                   threads, risk_assessments, last_rowid, request, response>>

MaxSaves == 3

MaxNow == 1

\* the request bodies sent to POST /api/risk: complete and in range, the
\* same with the numbers given in other JSON types, a field missing, a
\* value out of range, and values that are no numbers
ValidBodies ==
    {ToJson(Healthy), ("user_id" :> JsonNumber(1)) @@ ToJson(Risky)}

LooseBodies ==
    {[ToJson(Healthy) EXCEPT !.age = JsonString(<<"3", "5">>)],
     ("user_id" :> JsonNumber(1)) @@ [ToJson(Risky) EXCEPT !.exercise_days = JsonBool(FALSE)],
     ("user_id" :> JsonNumber(1)) @@ [ToJson(Risky) EXCEPT !.is_smoker = JsonString(<<"n", "o">>)]}

InvalidBodies ==
    {ToJson(Without(Healthy, {"age"})),
     ToJson(Without(Risky, {"is_smoker", "exercise_days"})),
     [ToJson(Healthy) EXCEPT !.age = JsonNumber(200)],
     [ToJson(Healthy) EXCEPT !.age = JsonNumber(0)],
     [ToJson(Risky) EXCEPT !.exercise_days = JsonNumber(8)],
     [ToJson(Healthy) EXCEPT !.cholesterol = JsonNumber(400)],
     [ToJson(Healthy) EXCEPT !.age = JsonString(<<"a", "b", "c">>)],
     [ToJson(Healthy) EXCEPT !.weight_kg = JsonNull]}

RiskBodies == ValidBodies \cup LooseBodies \cup InvalidBodies

AssessmentIds == 1..(MaxSaves + 1)

UserIds == {NoneVal, 1}

Limits == {0, 1, 2, 10, 101}

RiskRequest ==
    \E body \in RiskBodies :
        /\ last_rowid < MaxSaves
        /\ PostRisk(body)

NextStore ==
    \/ RiskRequest
    \/ \E assessment_id \in AssessmentIds : GetAssessment(assessment_id)
    \/ \E assessment_id \in AssessmentIds : DeleteAssessment(assessment_id)
    \/ \E user_id \in UserIds, limit \in Limits : GetHistory(user_id, limit)
    \/ \E user_id \in UserIds : GetStatistics(user_id)
    \/ now < MaxNow /\ Tick

SpecStore == Init /\ [][NextStore]_vars

(***************************************************************************)
(* Properties of the returned assessment.                                  *)
(***************************************************************************)
Returned == "agent_assessments" \in DOMAIN result

\* the evaluators whose entry of the latest assessment is a scored result
Succeeded == {key \in AgentSet : "error" \notin DOMAIN result.agent_assessments[key]}

ScoredFields ==
    {"risk_score", "risk_level", "category", "breakdown", "details",
     "agent_name", "processing_time_ms", "recommendations"}

\* the band of a score in hundredths under the 25/50/75 cut
Band(score) ==
    IF score < 2500 THEN "Low"
    ELSE IF score < 5000 THEN "Moderate"
    ELSE IF score < 7500 THEN "High"
    ELSE "Critical"

\* C1: whatever evaluators raise on the input, the assessment has exactly one
\* entry per evaluator; the entry of an evaluator that raised has an error
\* description and a null risk_score, the entry of an evaluator that did not
\* raise is its full scored result.
C1_FaultIsolation ==
    Returned =>
        /\ DOMAIN result.agent_assessments = AgentSet
        /\ \A key \in AgentSet :
              LET entry == result.agent_assessments[key]
              IN  IF Raised(assess_risk(key, data))
                  THEN /\ "error" \in DOMAIN entry
                       /\ "raised" \in DOMAIN entry.error
                       /\ "risk_score" \in DOMAIN entry
                       /\ entry.risk_score = NoneVal
                  ELSE /\ "error" \notin DOMAIN entry
                       /\ ScoredFields \subseteq DOMAIN entry
                       /\ entry.risk_score \in 0..10000
                       /\ entry.agent_name = AgentName(key)

\* an assessment in which the metabolic evaluator raised and the other two
\* were scored
C1_Witness ==
    /\ Returned
    /\ Succeeded = {"cardio", "neuro"}
    /\ result.agent_assessments.metabolic.risk_score = NoneVal

\* the sum of the weights (in hundredths) of the evaluators in S
UsedWeightPct(S) ==
    LET used_pct(key) == IF key \in S THEN AgentWeightPct(key) ELSE 0
    IN  used_pct("cardio") + used_pct("metabolic") + used_pct("neuro")

\* the sum over S of weight (in hundredths) times risk_score (in hundredths)
UsedScorePct(S) ==
    LET used_score(key) ==
            IF key \in S
            THEN AgentWeightPct(key) * result.agent_assessments[key].risk_score
            ELSE 0
    IN  used_score("cardio") + used_score("metabolic") + used_score("neuro")

Abs(n) == IF n < 0 THEN 0 - n ELSE n

\* C2: with S the evaluators that succeeded, the overall index is the
\* weighted average of their scores over the sum of their weights, to two
\* decimals (no more than half a hundredth away from the exact quotient);
\* with S empty the index is 0 and the level "Unknown".
C2_WeightedAverage ==
    Returned =>
        IF Succeeded = {}
        THEN /\ result.overall_health_index = 0
             /\ result.overall_risk_level = "Unknown"
        ELSE 2 * Abs(result.overall_health_index * UsedWeightPct(Succeeded)
                     - UsedScorePct(Succeeded))
                 <= UsedWeightPct(Succeeded)

\* an assessment with one evaluator failed whose index differs from the sum
\* of weight x score of the remaining two divided by 1.0
C2_Witness ==
    /\ Returned
    /\ Succeeded = {"cardio", "neuro"}
    /\ 2 * Abs(result.overall_health_index * 100 - UsedScorePct(Succeeded)) > 100

\* C3: integrated_recommendations is a non-empty list of at most 15 strings.
C3_RecommendationCount ==
    Returned =>
        /\ Len(result.integrated_recommendations) \in 1..15
        /\ \A i \in DOMAIN result.integrated_recommendations :
              DOMAIN result.integrated_recommendations[i] = {"alert", "text"}

\* the evaluators whose Critical recommendation tier fired
CriticalTier ==
    {key \in Succeeded : result.agent_assessments[key].risk_score >= 7500}

\* all three evaluators in the Critical tier and the list cut to 15
C3_Witness ==
    /\ Returned
    /\ CriticalTier = AgentSet
    /\ Len(result.integrated_recommendations) = 15

\* C4 as stated: when some Critical tier fired, every urgent-marked line
\* stands before every line that is not urgent-marked.
C4_UrgentBeforeAll ==
    (Returned /\ CriticalTier # {}) =>
        \A i, j \in DOMAIN result.integrated_recommendations :
            (result.integrated_recommendations[i].alert
             /\ ~result.integrated_recommendations[j].alert) => i < j

\* C4: when some Critical tier fired, the first line is the synthesized
\* summary, which is not urgent-marked, and among the lines after it every
\* urgent-marked line stands before every line that is not urgent-marked.
C4_UrgentAfterSummary ==
    (Returned /\ CriticalTier # {}) =>
        /\ result.integrated_recommendations[1] = ConcernSummary
        /\ ~result.integrated_recommendations[1].alert
        /\ \A i, j \in 2..Len(result.integrated_recommendations) :
              (result.integrated_recommendations[i].alert
               /\ ~result.integrated_recommendations[j].alert) => i < j

\* the cardiovascular tier is below Critical, two other tiers are Critical:
\* their urgent lines stand right after the summary
C4_Witness ==
    /\ Returned
    /\ CriticalTier = {"metabolic", "neuro"}
    /\ "cardio" \in Succeeded
    /\ result.integrated_recommendations[2].alert
    /\ result.integrated_recommendations[3].alert
    /\ ~result.integrated_recommendations[4].alert

\* the evaluators critical_areas has to name
Flagged ==
    {key \in Succeeded :
        \/ result.agent_assessments[key].risk_level \in {"High", "Critical"}
        \/ result.agent_assessments[key].risk_score >= 7500}

\* C5: critical_areas has exactly one entry for each successful evaluator
\* that is High or Critical or scored 75 or more, and none for any other; the
\* priority is "urgent" for a score of 75 or more and "high" otherwise; the
\* entries are in order of non-increasing risk_score.
C5_CriticalAreas ==
    Returned =>
        LET areas == result.critical_areas
        IN  /\ \A key \in AgentSet :
                  Cardinality({i \in DOMAIN areas : areas[i].agent = key})
                      = IF key \in Flagged THEN 1 ELSE 0
            /\ \A i \in DOMAIN areas :
                  /\ areas[i].agent \in AgentSet
                  /\ areas[i].risk_score = result.agent_assessments[areas[i].agent].risk_score
                  /\ areas[i].priority = IF areas[i].risk_score >= 7500 THEN "urgent" ELSE "high"
            /\ \A i, j \in DOMAIN areas :
                  i < j => areas[i].risk_score >= areas[j].risk_score

\* an urgent entry ahead of a high one, against the order of the agents, and
\* an evaluator that is not named
C5_Witness ==
    /\ Returned
    /\ Len(result.critical_areas) = 2
    /\ result.critical_areas[1].priority = "urgent"
    /\ result.critical_areas[2].priority = "high"
    /\ result.critical_areas[2].agent = "cardio"

(***************************************************************************)
(* Properties of the logs and of the statistics.                           *)
(***************************************************************************)
\* C6: the assessment log holds one entry per completed call, whatever the
\* call's input; a step never shrinks it or changes an entry it holds, a
\* step of a statistics accessor leaves it as it is, and
\* get_overall_performance_stats reports the number of completed calls.
C6_LogGrowth ==
    [][ /\ Len(assessment_log') = calls'
        /\ Len(assessment_log') >= Len(assessment_log)
        /\ SubSeq(assessment_log', 1, Len(assessment_log)) = assessment_log
        /\ (GetOverallPerformanceStats \/ GetAgentPerformanceStats)
               => assessment_log' = assessment_log
        /\ GetOverallPerformanceStats
               => /\ "total_assessments" \in DOMAIN stats'
                  /\ stats'.total_assessments = calls ]_vars

\* two completed calls, the first with every evaluator failed, and the
\* statistics reporting them
C6_Witness ==
    /\ calls = 2
    /\ Len(assessment_log) = 2
    /\ assessment_log[1].overall_score = 0
    /\ "total_assessments" \in DOMAIN stats
    /\ stats.total_assessments = 2

RECURSIVE SumTimes(_)
SumTimes(log) ==
    IF log = <<>> THEN 0 ELSE log[Len(log)].total_time_ms + SumTimes(SubSeq(log, 1, Len(log) - 1))

\* C7: get_overall_performance_stats reports performance_target_met = TRUE
\* exactly when the mean of the logged total_time_ms values is at most 3000
\* and FALSE when it is greater, with min_time_ms <= avg_time_ms <=
\* max_time_ms; on an empty log it reports total_assessments 0, avg_time_ms 0
\* and performance_target_met null.
C7_TargetMet ==
    [][ GetOverallPerformanceStats =>
          IF assessment_log = <<>>
          THEN /\ stats'.total_assessments = 0
               /\ stats'.avg_time_ms = 0
               /\ stats'.performance_target_met = NoneVal
          ELSE /\ stats'.performance_target_met \in BOOLEAN
               /\ stats'.performance_target_met
                      <=> (SumTimes(assessment_log) <= 100 * TargetMs * Len(assessment_log))
               /\ stats'.min_time_ms <= stats'.avg_time_ms
               /\ stats'.avg_time_ms <= stats'.max_time_ms
               /\ \A i \in DOMAIN assessment_log :
                      /\ stats'.min_time_ms <= assessment_log[i].total_time_ms
                      /\ assessment_log[i].total_time_ms <= stats'.max_time_ms ]_vars

\* statistics over two calls of different length whose mean is exactly
\* 3000 ms
C7_Witness ==
    /\ "total_assessments" \in DOMAIN stats
    /\ stats.total_assessments = 2
    /\ stats.min_time_ms < stats.max_time_ms
    /\ stats.avg_time_ms = 100 * TargetMs
    /\ stats.performance_target_met = TRUE

(***************************************************************************)
(* Properties of the scores.                                               *)
(***************************************************************************)
AllFields ==
    {"age", "weight_kg", "height_cm", "systolic", "diastolic", "cholesterol",
     "is_smoker", "exercise_days"}

\* the latest input has every field, numbers for the numeric ones and a
\* height that is not zero
ValidInput ==
    /\ Returned
    /\ DOMAIN data = AllFields
    /\ ~IsNone(data.diastolic)
    /\ data.height_cm # 0

\* the sub-scores of a breakdown are floats in [0, 100]
SubScoresInRange(breakdown) ==
    \A f \in DOMAIN breakdown : FLessEq(breakdown[f], FInt(100))

\* C8: on a valid input every evaluator's risk_score and every sub-score of
\* its breakdown lies in [0, 100], and so does the overall index.
C8_ScoresInRange ==
    ValidInput =>
        /\ Succeeded = AgentSet
        /\ \A key \in AgentSet :
              /\ result.agent_assessments[key].risk_score \in 0..10000
              /\ SubScoresInRange(result.agent_assessments[key].breakdown)
        /\ result.overall_health_index \in 0..10000

\* a valid input whose stroke sub-score is held at 100 by the cap
C8_Witness ==
    /\ ValidInput
    /\ data.is_smoker
    /\ data.age = 72
    /\ result.agent_assessments.neuro.breakdown.stroke_risk = FInt(100)

\* C9: on a valid input each evaluator's risk_level is the band of its
\* returned two-decimal risk_score: Low below 25, Moderate from 25 to below
\* 50, High from 50 to below 75, Critical from 75.
C9_AgentLevelAgrees ==
    ValidInput =>
        \A key \in AgentSet :
            /\ key \in Succeeded
            /\ result.agent_assessments[key].risk_level
                   = Band(result.agent_assessments[key].risk_score)

\* a valid input that puts the cardiovascular score on the bound 50.00
C9_Witness ==
    /\ ValidInput
    /\ result.agent_assessments.cardio.risk_score = 5000
    /\ result.agent_assessments.cardio.risk_level = "High"

\* C10 as stated: when some evaluator succeeded, overall_risk_level is the
\* band of the reported overall_health_index.
C10_OverallLevelAgrees ==
    (Returned /\ Succeeded # {}) =>
        result.overall_risk_level = Band(result.overall_health_index)

(***************************************************************************)
(* Validation of the input by each evaluator.                              *)
(***************************************************************************)
\* the list each evaluator's assess_risk hands to validate_data
RequiredFields(key) ==
    CASE key = "cardio"    -> CardioRequired
      [] key = "metabolic" -> MetabolicRequired
      [] key = "neuro"     -> NeuroRequired

\* the required fields of an evaluator that the input does not hold, in the
\* order of the evaluator's list
AbsentFields(key, d) == SelectSeq(RequiredFields(key), LAMBDA f : f \notin DOMAIN d)

\* C11: an evaluator's assess_risk raises the validation error exactly when
\* one of its required fields is absent from the input, and the error names
\* the evaluator and every absent field; a field present with the value
\* False or 0 is not absent; the rejected call leaves no scored result (the
\* entry is an error entry) and the evaluator's performance log, empty
\* before the call, is still empty.
C11_ValidationError ==
    Returned =>
        \A key \in AgentSet :
            LET outcome == assess_risk(key, data)
                invalid == Raised(outcome) /\ outcome.raised = "ValueError"
            IN  /\ invalid <=> AbsentFields(key, data) # <<>>
                /\ invalid =>
                      /\ outcome.detail.agent = AgentName(key)
                      /\ outcome.detail.missing = AbsentFields(key, data)
                      /\ "error" \in DOMAIN result.agent_assessments[key]
                      /\ result.agent_assessments[key].error = outcome
                      /\ performance_log[key] = <<>>
                /\ (~Raised(outcome)) => Len(performance_log[key]) = 1

\* an input without systolic and diastolic, with is_smoker False and
\* exercise_days 0: the cardiovascular and the neurological evaluator reject
\* it naming the two absent fields only, the metabolic one scores it
C11_Witness ==
    /\ Returned
    /\ {"systolic", "diastolic"} \cap DOMAIN data = {}
    /\ data.is_smoker = FALSE
    /\ data.exercise_days = 0
    /\ result.agent_assessments.cardio.error.detail.missing = <<"systolic", "diastolic">>
    /\ result.agent_assessments.neuro.error.detail.missing = <<"systolic", "diastolic">>
    /\ performance_log.cardio = <<>>
    /\ Succeeded = {"metabolic"}

(***************************************************************************)
(* The performance status of an assessment.                                *)
(***************************************************************************)
\* the fields of a complete assessment
AssessmentFields ==
    {"overall_health_index", "overall_risk_level", "agent_assessments", "critical_areas",
     "integrated_recommendations", "performance", "metadata"}

\* C12 as stated: in every returned assessment performance.status is
\* "optimal" exactly when the reported performance.total_time_ms (held in
\* hundredths of a millisecond) is at most 3000 and "degraded" otherwise;
\* whatever the span, the assessment is complete and is the latest entry of
\* the assessment log.
C12_StatusAgrees ==
    Returned =>
        /\ result.performance.status =
               IF result.performance.total_time_ms <= TargetMs * 100
               THEN "optimal" ELSE "degraded"
        /\ DOMAIN result = AssessmentFields
        /\ assessment_log # <<>>
        /\ assessment_log[Len(assessment_log)].total_time_ms
               = result.performance.total_time_ms

(***************************************************************************)
(* Requests served at the same time.                                       *)
(***************************************************************************)
\* the entries of agent_results a request holds so far
ThreadEntries(t) ==
    IF threads[t].pc = Idle THEN <<>>
    ELSE IF threads[t].pc = Done THEN threads[t].returned.agent_assessments
    ELSE threads[t].agent_results

\* the requests whose assess_with_timing of the agent has returned a result
TimedBy(key) ==
    {t \in Threads : /\ key \in DOMAIN ThreadEntries(t)
                     /\ "error" \notin DOMAIN ThreadEntries(t)[key]}

\* the requests that have returned with every evaluator scored
ServedValid ==
    {t \in Threads : /\ threads[t].pc = Done
                     /\ \A key \in AgentSet :
                           "error" \notin DOMAIN threads[t].returned.agent_assessments[key]}

ScoringContent(assessment) ==
    [overall_health_index       |-> assessment.overall_health_index,
     overall_risk_level         |-> assessment.overall_risk_level,
     agent_assessments          |->
         [key \in AgentSet |->
             Without(assessment.agent_assessments[key], {"processing_time_ms"})],
     critical_areas             |-> assessment.critical_areas,
     integrated_recommendations |-> assessment.integrated_recommendations]

ServedThreads == {t \in Threads : threads[t].pc = Done}

ScoredAs(category) == "category" \in DOMAIN result /\ result.category = category

LowProfile(d) ==
    /\ d.systolic < 120
    /\ d.diastolic < 80
    /\ d.cholesterol < 200
    /\ ~d.is_smoker
    /\ d.exercise_days >= 5

HighProfile(d) ==
    /\ d.is_smoker
    /\ d.cholesterol >= 280
    /\ d.systolic >= 160
    /\ d.diastolic >= 100
    /\ d.age >= 60
    /\ d.exercise_days = 0

\* C15: the cardiovascular evaluator gives every record of the low profile
\* a risk_score below 30 and the level Low, at any age, and every record of
\* the high profile a risk_score above 60 and the level High or Critical.
C15_CardioProfiles ==
    ScoredAs("Cardiovascular") =>
        /\ LowProfile(data) =>
              /\ result.risk_score < 3000
              /\ result.risk_level = "Low"
        /\ HighProfile(data) =>
              /\ result.risk_score > 6000
              /\ result.risk_level \in {"High", "Critical"}

\* the oldest record of the low profile, scored Low by the cardiovascular
\* evaluator
C15_Witness ==
    /\ ScoredAs("Cardiovascular")
    /\ LowProfile(data)
    /\ data.age = 85
    /\ result.risk_level = "Low"
    /\ performance_log.cardio = <<4>>

(***************************************************************************)
(* The BMI of the metabolic evaluator.                                     *)
(***************************************************************************)
ObeseClasses == {"Obese Class I", "Obese Class II", "Obese Class III (Severe)"}

\* C16: the bmi the metabolic evaluator reports is weight_kg divided by the
\* square of height_cm / 100, rounded to 2 decimals (in hundredths: no more
\* than half a hundredth from the exact quotient 1000000 * weight_kg /
\* height_cm^2); it is 22.86 for 70 kg at 175 cm, 16.33 for 50 kg and 24.49
\* for 75 kg; and with a BMI of 35 or more the classification is one of the
\* Obese classes.
C16_Bmi ==
    ScoredAs("Metabolic") =>
        /\ 2 * Abs(result.bmi * data.height_cm * data.height_cm
                      - 1000000 * data.weight_kg)
               <= data.height_cm * data.height_cm
        /\ data.height_cm = 175 =>
              /\ data.weight_kg = 70 => result.bmi = 2286
              /\ data.weight_kg = 50 => result.bmi = 1633
              /\ data.weight_kg = 75 => result.bmi = 2449
        /\ 10000 * data.weight_kg >= 35 * data.height_cm * data.height_cm
               => result.details.bmi_classification \in ObeseClasses

\* 120 kg at 170 cm: a BMI of 41.52, classified in an Obese class
C16_Witness ==
    /\ ScoredAs("Metabolic")
    /\ data.weight_kg = 120
    /\ data.height_cm = 170
    /\ result.bmi = 4152
    /\ result.details.bmi_classification \in ObeseClasses


(***************************************************************************)
(* POST /api/aggregate and the persistence of its assessment.              *)
(***************************************************************************)
\* the latest request was sent to the route and its body passes the
\* validation of the route
ValidRequestTo(route) ==
    /\ "route" \in DOMAIN request
    /\ request.route = route
    /\ "health_data" \in DOMAIN ParseRequest(request.body)

\* C17 as stated: a POST to /api/aggregate whose body holds all eight
\* health fields with in-range values is answered with status 200 carrying
\* the comprehensive assessment, after the assessment has been stored as
\* one record; it does not end in an error response.
C17_AggregateStored ==
    ValidRequestTo("POST /api/aggregate") =>
        /\ response.status = 200
        /\ AssessmentFields \subseteq DOMAIN response.body
        /\ Len(risk_assessments) >= 1


(***************************************************************************)
(* The assessment store: save, lookup and delete.                          *)
(***************************************************************************)
StoredIds(table) == {table[i].id : i \in DOMAIN table}

\* the step handles a request to the route (the only other step is Tick)
Handles(route) == now' = now /\ request'.route = route

\* the assessment has the values of the health data and of the risk result
\* as the columns hold them
HasStoredValues(assessment, user_id, health_data, risk_result) ==
    /\ assessment.user_id = user_id
    /\ \A f \in DOMAIN health_data \ {"is_smoker"} : assessment[f] = health_data[f]
    /\ assessment.is_smoker = AdaptBool(health_data.is_smoker)
    /\ assessment.bmi = risk_result.bmi
    /\ assessment.overall_score = risk_result.overall_score
    /\ assessment.risk_level = risk_result.risk_level
    /\ assessment.breakdown = risk_result.breakdown

\* C18: over any sequence of saves, lookups and deletes, (1) an assessment
\* stored by POST /api/risk is retrievable by the id returned, with the
\* values that were stored, and (2) stays so until it is deleted; (3) a
\* lookup of a stored id returns it with status 200; (4) deleting a stored
\* id reports success, and (5) every later lookup of an id once given out
\* and no longer stored reports not-found; (6) a lookup or delete of an id
\* that is not stored answers 404 and leaves the table unchanged.
C18_StoreLifecycle ==
    [][ /\ Handles("POST /api/risk") /\ last_rowid' # last_rowid =>
             /\ response'.status = 200
             /\ response'.body.assessment_id \notin StoredIds(risk_assessments)
             /\ HasStoredValues(get_assessment_by_id(risk_assessments',
                                                     response'.body.assessment_id),
                                UserIdOf(request'.body),
                                ParseRequest(request'.body).health_data, response'.body)
        /\ \A id \in StoredIds(risk_assessments) :
             ~(Handles("DELETE /api/history/<id>") /\ request'.assessment_id = id) =>
                 get_assessment_by_id(risk_assessments', id)
                     = get_assessment_by_id(risk_assessments, id)
        /\ Handles("GET /api/history/<id>")
             /\ request'.assessment_id \in StoredIds(risk_assessments) =>
                 response' = Respond(200, get_assessment_by_id(risk_assessments,
                                                               request'.assessment_id))
        /\ Handles("DELETE /api/history/<id>")
             /\ request'.assessment_id \in StoredIds(risk_assessments) =>
                 /\ response'.status = 200
                 /\ get_assessment_by_id(risk_assessments', request'.assessment_id) = PyNone
        /\ \A id \in 1..last_rowid :
             id \notin StoredIds(risk_assessments) =>
                 get_assessment_by_id(risk_assessments', id) = PyNone
        /\ (Handles("GET /api/history/<id>") \/ Handles("DELETE /api/history/<id>"))
             /\ request'.assessment_id \notin StoredIds(risk_assessments) =>
                 /\ response' = NotFound
                 /\ risk_assessments' = risk_assessments
      ]_vars

\* an id that was given out and deleted is looked up and not found, while
\* other assessments are stored
C18_Witness ==
    /\ "route" \in DOMAIN request
    /\ request.route = "GET /api/history/<id>"
    /\ request.assessment_id <= last_rowid
    /\ response = NotFound
    /\ risk_assessments # <<>>


(***************************************************************************)
(* The order of the assessment history.                                    *)
(***************************************************************************)
\* the latest request was a GET /api/history that was answered with a list
HistoryReturned ==
    /\ "route" \in DOMAIN request
    /\ request.route = "GET /api/history"
    /\ response.status = 200

\* C19 as stated: the history holds at most `limit` assessments, most
\* recently saved first: an assessment saved later (which has the larger
\* id) comes before every assessment saved earlier, also when the saves
\* follow each other within the same second.
C19_MostRecentFirst ==
    HistoryReturned =>
        /\ Len(response.body.assessments) <= request.limit
        /\ \A i, j \in DOMAIN response.body.assessments :
               i < j => response.body.assessments[i].id > response.body.assessments[j].id


(***************************************************************************)
(* The validation of POST /api/risk.                                       *)
(***************************************************************************)
NumericFields == {RequestFields[i] : i \in DOMAIN RequestFields} \ {"is_smoker"}

LacksField(body) == \E i \in DOMAIN RequestFields : RequestFields[i] \notin DOMAIN body

\* a field that is to hold a number holds a JSON value of another type
NonNumeric(body) == \E f \in NumericFields \cap DOMAIN body : body[f].type # "number"

\* all fields are there, the numbers are numbers, and one of them fails a
\* range check
OutOfRange(body) ==
    /\ ~LacksField(body)
    /\ ~NonNumeric(body)
    /\ "status" \in DOMAIN CheckRanges([f \in DOMAIN Converted(body) |->
                                            Converted(body)[f].value])

\* C20 as stated: a POST to /api/risk whose body lacks a required field, or
\* carries a value outside the accepted range or of a non-numeric type, is
\* answered with status 400 and stores nothing (the history and the
\* statistics are as before); a request with all eight fields in range is
\* answered with status 200 with overall_score, risk_level, bmi and the id
\* of exactly one newly stored assessment.
C20_RejectedOrStored ==
    [][ Handles("POST /api/risk") =>
          IF LacksField(request'.body) \/ NonNumeric(request'.body)
                                       \/ OutOfRange(request'.body)
          THEN /\ response'.status = 400
               /\ risk_assessments' = risk_assessments
               /\ get_assessment_history(risk_assessments', NoneVal, 100)
                     = get_assessment_history(risk_assessments, NoneVal, 100)
               /\ get_statistics(risk_assessments', NoneVal)
                     = get_statistics(risk_assessments, NoneVal)
          ELSE /\ response'.status = 200
               /\ {"overall_score", "risk_level", "bmi", "assessment_id"}
                     \subseteq DOMAIN response'.body
               /\ response'.body.assessment_id \notin StoredIds(risk_assessments)
               /\ StoredIds(risk_assessments')
                     = StoredIds(risk_assessments) \cup {response'.body.assessment_id}
               /\ Len(risk_assessments') = Len(risk_assessments) + 1
      ]_vars


(***************************************************************************)
(* The construction of integrated_recommendations.                         *)
(***************************************************************************)
\* the recommendations an evaluator contributes to the latest assessment
RecsOf(key) ==
    IF key \in Succeeded THEN result.agent_assessments[key].recommendations ELSE <<>>

\* the recommendations collected over the evaluators cardio, metabolic, neuro
Gathered == RecsOf("cardio") \o RecsOf("metabolic") \o RecsOf("neuro")

\* the first n strings of q, each kept where it is seen first
RECURSIVE KeepFirst(_, _)
KeepFirst(q, n) ==
    IF n = 0 THEN <<>>
    ELSE KeepFirst(q, n - 1)
         \o (IF \E j \in 1..(n - 1) : q[j] = q[n] THEN <<>> ELSE <<q[n]>>)

UrgentGathered == SelectSeq(Gathered, LAMBDA rec : rec.alert)

RegularGathered == SelectSeq(Gathered, LAMBDA rec : ~rec.alert)

\* C21: integrated_recommendations is the first 15 elements of: the summary
\* line (the "comprehensive medical evaluation" line if an urgent-marked
\* recommendation was collected, else the "healthy habits" line), then the
\* urgent-marked recommendations, then the regular ones, each group without
\* repeats in first-seen order over cardio, metabolic, neuro; after the
\* summary no string stands twice, and every line after the summary is a
\* recommendation of an evaluator that succeeded.
C21_IntegratedList ==
    Returned =>
        LET built == <<IF UrgentGathered # <<>> THEN ConcernSummary ELSE HealthySummary>>
                     \o KeepFirst(UrgentGathered, Len(UrgentGathered))
                     \o KeepFirst(RegularGathered, Len(RegularGathered))
            listed == result.integrated_recommendations
        IN  /\ Len(listed) = (IF Len(built) < 15 THEN Len(built) ELSE 15)
            /\ \A i \in DOMAIN listed : listed[i] = built[i]
            /\ \A i, j \in 2..Len(listed) : i # j => listed[i] # listed[j]
            /\ \A i \in 2..Len(listed) :
                  \E key \in Succeeded : listed[i] \in SeqSet(RecsOf(key))

\* one evaluator failed, the two others reached the Critical tier: the list
\* holds the summary, their two urgent lines and their regular lines
C21_Witness ==
    /\ Returned
    /\ Succeeded = {"cardio", "neuro"}
    /\ Len(UrgentGathered) = 2
    /\ result.integrated_recommendations[1] = ConcernSummary
    /\ Len(result.integrated_recommendations) = Len(Gathered) + 1


(***************************************************************************)
(* The score of the cardiovascular evaluator.                              *)
(***************************************************************************)
PressureRung(systolic, diastolic) ==
    IF systolic < 120 /\ diastolic < 80 THEN 10
    ELSE IF systolic < 130 /\ diastolic < 85 THEN 20
    ELSE IF systolic < 140 \/ diastolic < 90 THEN 40
    ELSE IF systolic < 160 \/ diastolic < 100 THEN 60
    ELSE IF systolic < 180 \/ diastolic < 110 THEN 80
    ELSE 100

\* the rung each bp_classification label names
PressureLabelRung ==
    ("Optimal" :> 10) @@ ("Normal" :> 20) @@ ("High Normal" :> 40)
    @@ ("Stage 1 Hypertension" :> 60) @@ ("Stage 2 Hypertension" :> 80)
    @@ ("Severe Hypertension" :> 100)

CholesterolRung(cholesterol) ==
    IF cholesterol < 200 THEN 10
    ELSE IF cholesterol < 240 THEN 50
    ELSE IF cholesterol < 280 THEN 75
    ELSE 95

\* the rung each cholesterol_classification label names
CholesterolLabelRung ==
    ("Desirable" :> 10) @@ ("Borderline High" :> 50) @@ ("High" :> 75)
    @@ ("Very High" :> 95)

CardioAgeRung(age) ==
    IF age < 30 THEN 10
    ELSE IF age < 40 THEN 20
    ELSE IF age < 50 THEN 35
    ELSE IF age < 60 THEN 50
    ELSE IF age < 70 THEN 70
    ELSE 85

CardioExerciseRung(exercise_days) ==
    IF exercise_days >= 5 THEN 10
    ELSE IF exercise_days >= 3 THEN 30
    ELSE IF exercise_days >= 1 THEN 50
    ELSE 80

\* C22: the cardiovascular risk_score is 0.35 x BP + 0.30 x cholesterol +
\* 0.20 x smoking + 0.10 x age + 0.05 x exercise to 2 decimals (in
\* hundredths: 35 x BP + ... + 5 x exercise, a whole number), each sub-score
\* being the first matching rung of its ladder, the breakdown holding these
\* sub-scores, and the two classification labels naming the rungs of the
\* pressure and cholesterol sub-scores.
C22_CardioScore ==
    ScoredAs("Cardiovascular") =>
        /\ result.risk_score
              = 35 * PressureRung(data.systolic, data.diastolic)
                + 30 * CholesterolRung(data.cholesterol)
                + 20 * (IF data.is_smoker THEN 80 ELSE 10)
                + 10 * CardioAgeRung(data.age)
                + 5 * CardioExerciseRung(data.exercise_days)
        /\ result.breakdown
              = [blood_pressure |-> FInt(PressureRung(data.systolic, data.diastolic)),
                 cholesterol    |-> FInt(CholesterolRung(data.cholesterol)),
                 smoking        |-> FInt(IF data.is_smoker THEN 80 ELSE 10),
                 age            |-> FInt(CardioAgeRung(data.age)),
                 exercise       |-> FInt(CardioExerciseRung(data.exercise_days))]
        /\ PressureLabelRung[result.details.bp_classification]
              = PressureRung(data.systolic, data.diastolic)
        /\ CholesterolLabelRung[result.details.cholesterol_classification]
              = CholesterolRung(data.cholesterol)

\* a systolic pressure below 120 with a diastolic pressure of 82: the second
\* rung, with cholesterol on the third rung and exercise on the second
C22_Witness ==
    /\ ScoredAs("Cardiovascular")
    /\ data.systolic = 115
    /\ data.diastolic = 82
    /\ result.details.bp_classification = "Normal"
    /\ result.details.cholesterol_classification = "High"
    /\ data.exercise_days = 3
    /\ data.age = 75
    /\ data.is_smoker
    /\ result.risk_score = 5550


(***************************************************************************)
(* The score of the metabolic evaluator.                                   *)
(***************************************************************************)
\* BMI < bound / 10 for the BMI weight_kg / (height_cm / 100)^2 of the record
BmiBelow(d, bound) == 100000 * d.weight_kg < bound * d.height_cm * d.height_cm

BmiRung(d) ==
    IF BmiBelow(d, 185) THEN 40
    ELSE IF BmiBelow(d, 250) THEN 10
    ELSE IF BmiBelow(d, 300) THEN 45
    ELSE IF BmiBelow(d, 350) THEN 70
    ELSE IF BmiBelow(d, 400) THEN 85
    ELSE 95

LipidRung(cholesterol) ==
    IF cholesterol < 200 THEN 10
    ELSE IF cholesterol < 240 THEN 40
    ELSE IF cholesterol < 280 THEN 70
    ELSE 90

MetabolicExerciseRung(exercise_days) ==
    IF exercise_days >= 5 THEN 10
    ELSE IF exercise_days >= 3 THEN 25
    ELSE IF exercise_days >= 1 THEN 50
    ELSE 80

MetabolicAgeRung(age) ==
    IF age < 30 THEN 10
    ELSE IF age < 45 THEN 25
    ELSE IF age < 60 THEN 45
    ELSE 65

\* C23 as stated: the metabolic risk_score is 0.40 x BMI + 0.30 x lipid +
\* 0.20 x exercise + 0.10 x age to 2 decimals (in hundredths: 40 x BMI + ...
\* + 10 x age), the BMI sub-score being 40/10/45/70/85/95 at a BMI below
\* 18.5 / 25 / 30 / 35 / 40 / else, with the lipid, exercise and age rungs
\* of the ladders; elevated_bmi is flagged exactly at a BMI of 30 or more,
\* elevated_cholesterol exactly at a cholesterol of 240 or more, and
\* risk_present exactly when one of the two is flagged.
C23_MetabolicScore ==
    ScoredAs("Metabolic") =>
        /\ result.risk_score
              = 40 * BmiRung(data) + 30 * LipidRung(data.cholesterol)
                + 20 * MetabolicExerciseRung(data.exercise_days)
                + 10 * MetabolicAgeRung(data.age)
        /\ result.details.metabolic_syndrome_indicators
              = [elevated_bmi         |-> ~BmiBelow(data, 300),
                 elevated_cholesterol |-> data.cholesterol >= 240,
                 risk_present         |-> ~BmiBelow(data, 300) \/ data.cholesterol >= 240]


(***************************************************************************)
(* The score of the neurological evaluator.                                *)
(***************************************************************************)
StrokeAgeBand(age) ==
    IF age < 45 THEN 10
    ELSE IF age < 55 THEN 25
    ELSE IF age < 65 THEN 45
    ELSE IF age < 75 THEN 65
    ELSE 80

StrokePressureAddend(systolic, diastolic) ==
    IF systolic >= 180 \/ diastolic >= 110 THEN 40
    ELSE IF systolic >= 160 \/ diastolic >= 100 THEN 30
    ELSE IF systolic >= 140 \/ diastolic >= 90 THEN 15
    ELSE 0

StrokeCholesterolAddend(cholesterol) ==
    IF cholesterol >= 280 THEN 15 ELSE IF cholesterol >= 240 THEN 10 ELSE 0

\* ten times (age band + BP addend) x (1.4 or 1) + cholesterol addend
StrokeTenths(d) ==
    (StrokeAgeBand(d.age) + StrokePressureAddend(d.systolic, d.diastolic))
        * (IF d.is_smoker THEN 14 ELSE 10)
    + 10 * StrokeCholesterolAddend(d.cholesterol)

\* ten times the stroke sub-score: the cap at 100 applied last
CappedStrokeTenths(d) == IF StrokeTenths(d) > 1000 THEN 1000 ELSE StrokeTenths(d)

\* the sum of the two terms of the vascular sub-score
VascularTerms(d) ==
    (IF d.systolic < 120 THEN 10 ELSE IF d.systolic < 140 THEN 30
     ELSE IF d.systolic < 160 THEN 60 ELSE 85)
    + (IF d.cholesterol < 200 THEN 10 ELSE IF d.cholesterol < 240 THEN 35 ELSE 60)

CognitiveAgeRung(age) ==
    IF age < 40 THEN 5
    ELSE IF age < 50 THEN 15
    ELSE IF age < 60 THEN 30
    ELSE IF age < 70 THEN 50
    ELSE IF age < 80 THEN 70
    ELSE 85

NeuroprotectionRung(exercise_days) ==
    IF exercise_days >= 5 THEN 10
    ELSE IF exercise_days >= 3 THEN 25
    ELSE IF exercise_days >= 1 THEN 50
    ELSE 80

\* 10000 times 0.25 x cognitive age + 0.35 x stroke + 0.25 x vascular +
\* 0.15 x neuroprotection
NeuroTenThousandths(d) ==
    2500 * CognitiveAgeRung(d.age) + 350 * CappedStrokeTenths(d)
    + 1250 * VascularTerms(d) + 1500 * NeuroprotectionRung(d.exercise_days)

\* C24: the stroke sub-score is min(100, (age band + BP addend) x (1.4 for
\* a smoker, else 1) + cholesterol addend), up to the precision of the float
\* (its value to 2 decimals is that number); the vascular sub-score is the
\* mean of its two terms; and the neurological risk_score is 0.25 x
\* cognitive age + 0.35 x stroke + 0.25 x vascular + 0.15 x neuroprotection
\* to 2 decimals (no more than half a hundredth from the exact sum).
C24_NeuroScore ==
    ScoredAs("Neurological") =>
        /\ Round2(result.breakdown.stroke_risk) = 10 * CappedStrokeTenths(data)
        /\ Round2(result.breakdown.vascular_health) = 50 * VascularTerms(data)
        /\ result.breakdown.cognitive_aging = FInt(CognitiveAgeRung(data.age))
        /\ result.breakdown.neuroprotection = FInt(NeuroprotectionRung(data.exercise_days))
        /\ 2 * Abs(100 * result.risk_score - NeuroTenThousandths(data)) <= 100

\* a smoker aged 62 at 150/95 with cholesterol 250: (45 + 15) x 1.4 + 10 =
\* 94, below the cap, where adding the cholesterol first would give 98
C24_Witness ==
    /\ ScoredAs("Neurological")
    /\ data.is_smoker
    /\ data.age = 62
    /\ data.systolic = 150
    /\ data.diastolic = 95
    /\ data.cholesterol = 250
    /\ Round2(result.breakdown.stroke_risk) = 9400


(***************************************************************************)
(* The recommendations of the three evaluators.                            *)
(***************************************************************************)
\* the evaluator that produced the result
ProducedBy(key) == "agent_name" \in DOMAIN result /\ result.agent_name = AgentName(key)

\* the lower end of the tier of a score, in hundredths
TierFloor(score) ==
    IF score < 2500 THEN 0
    ELSE IF score < 5000 THEN 2500
    ELSE IF score < 7500 THEN 5000
    ELSE 7500

\* scores on both sides of the three cuts, and the two ends
TierBoundScores == {0, 1, 2499, 2500, 2501, 4999, 5000, 5001, 7499, 7500, 7501, 10000}

\* the strings after the first one
Rest(recs) == {recs[i] : i \in 2..Len(recs)}

\* C25: for each evaluator and every score, get_recommendations returns
\* between 3 and 6 strings, the same strings as for any other score of the
\* same tier (< 25, < 50, < 75, else); the first string carries the alert
\* prefix exactly when the score is >= 75, and no later string carries it.
\* Stated of the recommendations of every returned result and of the
\* scores on both sides of every cut.
C25_Recommendations ==
    /\ \A key \in AgentSet : \A score \in TierBoundScores :
           LET recs == get_recommendations(key, score)
           IN  /\ Len(recs) \in 3..6
               /\ recs = get_recommendations(key, TierFloor(score))
               /\ Head(recs).alert <=> score >= 7500
               /\ \A rec \in Rest(recs) : ~rec.alert
    /\ \A key \in AgentSet :
           ProducedBy(key) =>
               /\ Len(result.recommendations) \in 3..6
               /\ result.recommendations
                      = get_recommendations(key, TierFloor(result.risk_score))
               /\ Head(result.recommendations).alert <=> result.risk_score >= 7500
               /\ \A rec \in Rest(result.recommendations) : ~rec.alert

\* a neurological result in the highest tier: six strings, the first one
\* with the alert prefix
C25_Witness ==
    /\ ProducedBy("neuro")
    /\ result.risk_score >= 7500
    /\ Len(result.recommendations) = 6
    /\ Head(result.recommendations).alert


(***************************************************************************)
(* The performance statistics of the evaluators.                           *)
(***************************************************************************)
RECURSIVE SumOfTimes(_)
SumOfTimes(times) == IF times = <<>> THEN 0 ELSE Head(times) + SumOfTimes(Tail(times))

\* the statistics are those of the log: its length, its mean to 2 decimals,
\* its largest and its smallest entry (times in hundredths of a millisecond)
StatsOfLog(agent_statistics, log) ==
    /\ "total_assessments" \in DOMAIN agent_statistics
    /\ agent_statistics.total_assessments = Len(log)
    /\ log # <<>> =>
          /\ 2 * Abs(Len(log) * agent_statistics.avg_time_ms - SumOfTimes(log)) <= Len(log)
          /\ agent_statistics.max_time_ms \in SeqSet(log)
          /\ agent_statistics.min_time_ms \in SeqSet(log)
          /\ \A time \in SeqSet(log) :
                 agent_statistics.min_time_ms <= time /\ time <= agent_statistics.max_time_ms

\* a step of assess_comprehensive_risk adds one entry to the assessment log
\* and one entry to the log of every evaluator that did not fail
CountsFollow ==
    /\ Len(assessment_log') = Len(assessment_log) + 1
    /\ \A key \in AgentSet :
           Len(performance_log'[key]) =
               Len(performance_log[key])
               + (IF "error" \in DOMAIN result'.agent_assessments[key] THEN 0 ELSE 1)

\* C26 as stated: whenever the statistics of the evaluators are read, also
\* before the first assessment, each evaluator's statistics report the
\* count, the average, the minimum and the maximum of its logged times, and
\* the count does not exceed the number of assessments of the Aggregator;
\* every assessment adds one entry to the log of each evaluator that
\* returned a result and none to the log of an evaluator that failed.
C26_AgentStats ==
    [][ /\ agent_stats' # agent_stats =>
              \A key \in AgentSet :
                  /\ StatsOfLog(agent_stats'[key], performance_log[key])
                  /\ agent_stats'[key].total_assessments <= Len(assessment_log)
        /\ calls' # calls => CountsFollow ]_vars


(***************************************************************************)
(* The score of the calculator.                                            *)
(***************************************************************************)
Calculated == "overall_score" \in DOMAIN result

\* the rungs of the calculator as stated; the BMI rung by the exact
\* comparison of weight_kg / (height_cm / 100) ** 2 with the bounds
CalculatorRungs(d) ==
    [age            |-> IF d.age < 30 THEN 10 ELSE IF d.age < 45 THEN 20
                        ELSE IF d.age < 60 THEN 40 ELSE 60,
     bmi            |-> IF BmiBelow(d, 185) THEN 30 ELSE IF BmiBelow(d, 250) THEN 10
                        ELSE IF BmiBelow(d, 300) THEN 40 ELSE 70,
     blood_pressure |-> IF d.systolic < 120 /\ d.diastolic < 80 THEN 10
                        ELSE IF d.systolic < 130 /\ d.diastolic < 80 THEN 20
                        ELSE IF d.systolic < 140 \/ d.diastolic < 90 THEN 50
                        ELSE 80,
     cholesterol    |-> IF d.cholesterol < 200 THEN 10
                        ELSE IF d.cholesterol < 240 THEN 40 ELSE 70,
     smoking        |-> IF d.is_smoker THEN 60 ELSE 10,
     exercise       |-> IF d.exercise_days >= 5 THEN 10 ELSE IF d.exercise_days >= 3 THEN 20
                        ELSE IF d.exercise_days >= 1 THEN 40 ELSE 60]

\* 100 times the weighted sum of the rungs: a whole number of hundredths
CalculatorHundredths(rungs) ==
    15 * rungs.age + 20 * rungs.bmi + 25 * rungs.blood_pressure
    + 20 * rungs.cholesterol + 10 * rungs.smoking + 10 * rungs.exercise

\* C27 as stated: calculate_risk returns the sub-scores of its ladders, the
\* overall_score 0.15 x age + 0.20 x bmi + 0.25 x blood_pressure + 0.20 x
\* cholesterol + 0.10 x smoking + 0.10 x exercise rounded to 2 decimals,
\* and risk_level Low below 25, Moderate below 50, High otherwise.
C27_CalculatorScore ==
    Calculated =>
        /\ result.breakdown = CalculatorRungs(data)
        /\ result.overall_score = CalculatorHundredths(CalculatorRungs(data))
        /\ result.risk_level =
               IF result.overall_score < 2500 THEN "Low"
               ELSE IF result.overall_score < 5000 THEN "Moderate"
               ELSE "High"


(***************************************************************************)
(* The four signs of a Critical evaluator.                                 *)
(***************************************************************************)
SomeCritical ==
    \E key \in Succeeded : result.agent_assessments[key].risk_level = "Critical"

SomeUrgentArea ==
    \E i \in DOMAIN result.critical_areas : result.critical_areas[i].priority = "urgent"

SomeUrgentLine ==
    \E i \in DOMAIN result.integrated_recommendations :
        result.integrated_recommendations[i].alert

\* C28: in every returned assessment these four are equivalent: a
\* successful evaluator has risk_level Critical; critical_areas has an entry
\* of priority "urgent"; integrated_recommendations has an urgent-marked
\* line; the first line of integrated_recommendations is the "comprehensive
\* medical evaluation recommended" summary and not the "healthy habits" one.
C28_CriticalSigns ==
    Returned =>
        /\ Head(result.integrated_recommendations) \in {ConcernSummary, HealthySummary}
        /\ SomeCritical <=> SomeUrgentArea
        /\ SomeCritical <=> SomeUrgentLine
        /\ SomeCritical <=> Head(result.integrated_recommendations) = ConcernSummary

\* one evaluator Critical, one failed and one below Critical: the four
\* signs are all present
C28_Witness ==
    /\ Returned
    /\ Succeeded # AgentSet
    /\ SomeCritical
    /\ \E key \in Succeeded : result.agent_assessments[key].risk_level # "Critical"
    /\ SomeUrgentArea
    /\ SomeUrgentLine
    /\ Head(result.integrated_recommendations) = ConcernSummary


(***************************************************************************)
(* What the cut to 15 lines removes.                                       *)
(***************************************************************************)
\* the lines of the evaluators that are not in the returned list
CutOff == SeqSet(Gathered) \ SeqSet(result.integrated_recommendations)

\* the last evaluator, in the order cardio, metabolic, neuro, that succeeded
LastSucceeded ==
    AgentKeys[CHOOSE n \in DOMAIN AgentKeys :
                 /\ AgentKeys[n] \in Succeeded
                 /\ \A later \in DOMAIN AgentKeys :
                        later > n => AgentKeys[later] \notin Succeeded]

\* C29: the cut to 15 entries never removes an urgent-marked line: every
\* urgent-marked recommendation of a successful evaluator is in the final
\* list, the urgent-marked lines stand directly after the summary line, and
\* what is cut off are regular lines at the end of the order cardio,
\* metabolic, neuro (the last regular lines of the last evaluator).
C29_UrgentKept ==
    Returned =>
        LET listed == result.integrated_recommendations
        IN  /\ SeqSet(UrgentGathered) \subseteq SeqSet(listed)
            /\ \A i \in DOMAIN listed :
                   listed[i].alert <=> (2 <= i /\ i <= Cardinality(SeqSet(UrgentGathered)) + 1)
            /\ \A rec \in CutOff :
                   /\ ~rec.alert
                   /\ rec \in SeqSet(RecsOf(LastSucceeded))
            /\ \A i, j \in DOMAIN RegularGathered :
                   (i < j /\ RegularGathered[i] \in CutOff) => RegularGathered[j] \in CutOff

\* all three evaluators in the Critical tier: seventeen lines with the
\* summary, of which the last two regular lines are cut off and the three
\* urgent lines stand at positions 2 to 4
C29_Witness ==
    /\ Returned
    /\ Succeeded = AgentSet
    /\ Len(UrgentGathered) = 3
    /\ Len(Gathered) = 16
    /\ Len(result.integrated_recommendations) = 15
    /\ Cardinality(CutOff) = 2
    /\ \A i \in 2..4 : result.integrated_recommendations[i].alert


(***************************************************************************)
(* The overall index among the scores it averages.                         *)
(***************************************************************************)
\* the risk_scores of the evaluators that succeeded, in hundredths
SuccessfulScores == {result.agent_assessments[key].risk_score : key \in Succeeded}

\* C30: whenever at least one evaluator succeeds, overall_health_index is
\* not below the smallest and not above the largest risk_score of the
\* successful evaluators, and it equals the risk_score of the evaluator
\* when exactly one succeeds.
C30_IndexWithinScores ==
    (Returned /\ Succeeded # {}) =>
        /\ \E low \in SuccessfulScores : low <= result.overall_health_index
        /\ \E high \in SuccessfulScores : result.overall_health_index <= high
        /\ Cardinality(Succeeded) = 1 =>
               \A key \in Succeeded :
                   result.overall_health_index = result.agent_assessments[key].risk_score

\* the metabolic evaluator alone succeeded, with a score above 0: the
\* index is its score
C30_Witness ==
    /\ Returned
    /\ Succeeded = {"metabolic"}
    /\ result.agent_assessments.metabolic.risk_score > 0
    /\ result.overall_health_index = result.agent_assessments.metabolic.risk_score

\* three evaluators with three different scores: the index lies strictly
\* between the smallest and the largest
C30_WitnessBetween ==
    /\ Returned
    /\ Succeeded = AgentSet
    /\ Cardinality(SuccessfulScores) = 3
    /\ \E low, high \in SuccessfulScores :
           low < result.overall_health_index /\ result.overall_health_index < high

====
